---- MODULE Spec2Model ----
(***************************************************************************)
(* Model of the Muse EEG telemetry core (src/src/muse_model.rs,            *)
(* src/src/muse_packet.rs, src/src/main.rs).                               *)
(*                                                                         *)
(* Floating point values are modelled in exact arithmetic: a finite value  *)
(* is a reduced rational n/d, the square root of a rational that is not a  *)
(* perfect square is kept as a surd, and the IEEE non-finite values NaN,   *)
(* +inf and -inf are values of their own.                                  *)
(***************************************************************************)
EXTENDS Integers, Sequences, FiniteSets, TLC

(***************************************************************************)
(* Option<T>                                                               *)
(***************************************************************************)
None == <<>>

Some(x) == <<x>>

is_some(o) == o # None

unwrap(o) == o[1]

(***************************************************************************)
(* Float values                                                            *)
(***************************************************************************)
Abs(i) == IF i < 0 THEN -i ELSE i

Sign(i) == IF i < 0 THEN -1 ELSE IF i > 0 THEN 1 ELSE 0

RECURSIVE GCD(_, _)
GCD(a, b) == IF b = 0 THEN a ELSE GCD(b, a % b)

\* The finite value n/d (d # 0), reduced, with the sign in the numerator.
Rat(n, d) ==
    LET g == GCD(Abs(n), Abs(d))
        s == IF d < 0 THEN -1 ELSE 1
    IN  [k |-> "fin", n |-> s * (n \div g), d |-> s * (d \div g)]

FromInt(i) == [k |-> "fin", n |-> i, d |-> 1]

NaN == [k |-> "nan", n |-> 0, d |-> 1]

PosInf == [k |-> "inf", n |-> 1, d |-> 1]

NegInf == [k |-> "inf", n |-> -1, d |-> 1]

Zero == FromInt(0)

\* +sqrt(n/d) or -sqrt(n/d) of a positive rational that has no rational root
Surd(s, q) == [k |-> IF s < 0 THEN "nsqrt" ELSE "sqrt", n |-> q.n, d |-> q.d]

IsSurd(x) == x.k \in {"sqrt", "nsqrt"}

\* f32::is_finite
is_finite(x) == x.k \in {"fin", "sqrt", "nsqrt"}

\* sign of a value that is not NaN
SignOf(x) == IF x.k = "nsqrt" THEN -1 ELSE IF x.k = "sqrt" THEN 1 ELSE Sign(x.n)

\* a + b
FAdd(a, b) ==
    IF a.k = "nan" \/ b.k = "nan" THEN NaN
    ELSE IF a.k = "inf" /\ b.k = "inf" THEN IF a.n = b.n THEN a ELSE NaN
    ELSE IF a.k = "inf" THEN a
    ELSE IF b.k = "inf" THEN b
    ELSE LET g == GCD(a.d, b.d)
             l == (a.d \div g) * b.d
         IN  Rat(a.n * (l \div a.d) + b.n * (l \div b.d), l)

\* -a
FNeg(a) ==
    IF a.k = "nan" THEN NaN
    ELSE IF a.k = "sqrt" THEN [a EXCEPT !.k = "nsqrt"]
    ELSE IF a.k = "nsqrt" THEN [a EXCEPT !.k = "sqrt"]
    ELSE [a EXCEPT !.n = -a.n]

\* a - b
FSub(a, b) == FAdd(a, FNeg(b))

\* a * b
FMul(a, b) ==
    IF a.k = "nan" \/ b.k = "nan" THEN NaN
    ELSE IF a.k = "inf" \/ b.k = "inf"
         THEN IF SignOf(a) * SignOf(b) = 0 THEN NaN
              ELSE IF SignOf(a) * SignOf(b) > 0 THEN PosInf ELSE NegInf
    ELSE LET g1 == GCD(Abs(a.n), b.d)
             g2 == GCD(Abs(b.n), a.d)
         IN  Rat((a.n \div g1) * (b.n \div g2), (a.d \div g2) * (b.d \div g1))

\* a / b, IEEE: x/0 is +-inf for x # 0 and NaN for x = 0
FDiv(a, b) ==
    IF a.k = "nan" \/ b.k = "nan" THEN NaN
    ELSE IF a.k = "inf"
         THEN IF b.k = "inf" THEN NaN
              ELSE IF SignOf(a) * SignOf(b) < 0 THEN NegInf ELSE PosInf
    ELSE IF b.k = "inf" THEN Zero
    ELSE IF SignOf(b) = 0
         THEN IF SignOf(a) = 0 THEN NaN
              ELSE IF SignOf(a) > 0 THEN PosInf ELSE NegInf
    ELSE IF IsSurd(b)
         \* a / (+-sqrt q) = +-sign(a) * sqrt(a^2 / q), a rational
         THEN IF SignOf(a) = 0 THEN Zero
              ELSE Surd(SignOf(a) * SignOf(b),
                        FMul(FMul(a, a), Rat(b.d, b.n)))
    ELSE FMul(a, Rat(b.d, b.n))

\* a < b on finite rationals; any comparison with NaN is false
FLt(a, b) ==
    IF a.k = "nan" \/ b.k = "nan" THEN FALSE
    ELSE IF a.k = "inf" \/ b.k = "inf"
         THEN a # b /\ (a = NegInf \/ b = PosInf)
    ELSE a.n * b.d < b.n * a.d

\* a != b: NaN differs from everything, itself included
FNe(a, b) == a.k = "nan" \/ b.k = "nan" \/ a # b

\* floor of the square root of n >= 0, by bisection on lo..hi
RECURSIVE ISqrtIn(_, _, _)
ISqrtIn(n, lo, hi) ==
    IF lo >= hi THEN lo
    ELSE LET mid == (lo + hi + 1) \div 2
         IN  IF mid <= n \div mid THEN ISqrtIn(n, mid, hi)
             ELSE ISqrtIn(n, lo, mid - 1)

ISqrt(n) == ISqrtIn(n, 0, n)

\* f32::sqrt
FSqrt(a) ==
    IF a.k = "nan" THEN NaN
    ELSE IF a.k = "inf" THEN IF a.n > 0 THEN PosInf ELSE NaN
    ELSE IF a.n < 0 THEN NaN
    ELSE LET rn == ISqrt(a.n)
             rd == ISqrt(a.d)
         IN  IF rn * rn = a.n /\ rd * rd = a.d THEN Rat(rn, rd)
             ELSE Surd(1, a)


(***************************************************************************)
(* Constants of muse_model.rs                                              *)
(***************************************************************************)
HISTORY_LENGTH == 120

WINDOW_LENGTH == 10

(***************************************************************************)
(* Rounding to f32. The values of the runs above are small integers and    *)
(* halves, on which every sum, product and quotient taken is exact; the    *)
(* operators below round a finite rational to the nearest value with a     *)
(* 24-bit significand, ties to even, as each f32 operation does, for       *)
(* values in the normal range.                                             *)
(***************************************************************************)
\* the quotient q, remainder r over d, doubled until q has 24 bits; k counts
\* the doublings
RECURSIVE f32_shift_left(_, _, _, _)
f32_shift_left(q, r, d, k) ==
    IF q >= 2^23 THEN [q |-> q, r |-> r, k |-> k]
    ELSE IF 2 * r >= d THEN f32_shift_left(2 * q + 1, 2 * r - d, d, k + 1)
    ELSE f32_shift_left(2 * q, 2 * r, d, k + 1)

\* the number of bits q has beyond 24
RECURSIVE f32_excess(_)
f32_excess(q) == IF q < 2^24 THEN 0 ELSE 1 + f32_excess(q \div 2)

\* the f32 nearest to the finite rational x, ties to even
f32_round(x) ==
    IF x.k # "fin" \/ x.n = 0 THEN x
    ELSE LET a == Abs(x.n)
             q0 == a \div x.d
             r0 == a % x.d
         IN  IF q0 >= 2^24
             THEN LET j == f32_excess(q0)
                      m == q0 \div 2^j
                      low == q0 % 2^j
                      half == 2^(j - 1)
                      up == \/ low > half
                            \/ low = half /\ (r0 > 0 \/ m % 2 = 1)
                  IN  Rat(Sign(x.n) * (IF up THEN m + 1 ELSE m) * 2^j, 1)
             ELSE LET t == f32_shift_left(q0, r0, x.d, 0)
                      up == \/ 2 * t.r > x.d
                            \/ 2 * t.r = x.d /\ t.q % 2 = 1
                  IN  Rat(Sign(x.n) * (IF up THEN t.q + 1 ELSE t.q), 2^t.k)

(***************************************************************************)
(* Running statistics engine: NormalizedValue<T>                           *)
(***************************************************************************)
\* the sum of data[lo..hi]. The additions are exact, so their grouping does
\* not change the result; they are grouped by halves to keep the evaluation
\* shallow on a full history.
RECURSIVE sum_range(_, _, _)
sum_range(data, lo, hi) ==
    IF lo > hi THEN Zero
    ELSE IF lo = hi THEN FAdd(Zero, data[lo])
    ELSE FAdd(sum_range(data, lo, (lo + hi) \div 2),
              sum_range(data, (lo + hi) \div 2 + 1, hi))

\* fn sum: the elements added up, starting from 0
sum(data) == sum_range(data, 1, Len(data))

\* fn mean
mean(data) ==
    LET count == Len(data)
    IN  IF count > 0 THEN Some(FDiv(sum(data), FromInt(count))) ELSE None

\* the variance: the mean squared difference, its square root not taken
std_deviation_variance(data, data_mean) ==
    IF is_some(data_mean) /\ Len(data) > 0
    THEN LET squares == [i \in 1..Len(data) |->
                            FMul(FSub(unwrap(data_mean), data[i]),
                                 FSub(unwrap(data_mean), data[i]))]
         IN  Some(FDiv(sum(squares), FromInt(Len(data))))
    ELSE None

\* the sample standard deviation: the squared differences are divided by n - 1
std_deviation_sample(data, data_mean) ==
    IF is_some(data_mean) /\ Len(data) > 0
    THEN LET squares == [i \in 1..Len(data) |->
                            FMul(FSub(unwrap(data_mean), data[i]),
                                 FSub(unwrap(data_mean), data[i]))]
         IN  Some(FSqrt(FDiv(sum(squares), FromInt(Len(data) - 1))))
    ELSE None

\* fn std_deviation: population standard deviation around the given mean
std_deviation(data, data_mean) ==
    IF is_some(data_mean) /\ Len(data) > 0
    THEN LET squared_difference_vec ==
                 [i \in 1..Len(data) |->
                     LET diff == FSub(unwrap(data_mean), data[i])
                     IN  FMul(diff, diff)]
             variance_sum == FDiv(sum(squared_difference_vec), FromInt(Len(data)))
         IN  Some(FSqrt(variance_sum))
    ELSE None

\* a constructor that starts the statistics at zero instead of undefined
NormalizedValue_new_zeroed ==
    [current |-> None, min |-> None, max |-> None, mean |-> Some(Zero),
     deviation |-> Some(Zero), history |-> <<>>, moving_average_history |-> <<>>]

\* NormalizedValue::new
NormalizedValue_new ==
    [current |-> None, min |-> None, max |-> None, mean |-> None,
     deviation |-> None, history |-> <<>>, moving_average_history |-> <<>>]

\* NormalizedValue::moving_average
moving_average(self) ==
    LET count == Len(self.moving_average_history)
    IN  IF count > 0
        THEN Some(FDiv(sum(self.moving_average_history), FromInt(count)))
        ELSE None

\* an admission gate that also rejects a value still held in the history
acceptable_new_value_unseen(self, val) ==
    is_finite(val) /\ \A i \in 1..Len(self.history) : val # self.history[i]

\* an admission gate that does not compare with the current value
acceptable_new_value_any_finite(self, val) == is_finite(val)

\* the admission gate of NormalizedValue::set
acceptable_new_value(self, val) ==
    IF is_some(self.current)
    THEN is_finite(val) /\ FNe(val, unwrap(self.current))
    ELSE is_finite(val)

\* running maximum kept by NormalizedValue::set
update_max(self, val) ==
    IF ~is_some(self.max) \/ FLt(unwrap(self.max), val) THEN Some(val) ELSE self.max

\* a minimum taken over the bounded history only
update_min_windowed(self, val) ==
    LET h == IF Len(self.history) >= HISTORY_LENGTH
             THEN Append(Tail(self.history), val) ELSE Append(self.history, val)
    IN  Some(CHOOSE x \in {h[i] : i \in 1..Len(h)} :
                 \A j \in 1..Len(h) : ~FLt(h[j], x))

\* running minimum kept by NormalizedValue::set
update_min(self, val) ==
    IF ~is_some(self.min) \/ FLt(val, unwrap(self.min)) THEN Some(val) ELSE self.min

\* a history that keeps the newest value only
push_history_newest_only(history, val) == <<val>>

\* eviction from the history as soon as HISTORY_LENGTH is reached
push_history_early(history, val) ==
    IF Len(history) + 1 >= HISTORY_LENGTH THEN Append(Tail(history), val)
    ELSE Append(history, val)

\* history.push(val), then remove(0) beyond HISTORY_LENGTH
push_history(history, val) ==
    LET pushed == Append(history, val)
    IN  IF Len(pushed) > HISTORY_LENGTH THEN Tail(pushed) ELSE pushed

\* a window that takes the new value at its front
push_moving_average_front(window, val) ==
    LET pushed == <<val>> \o window
    IN  IF Len(pushed) >= WINDOW_LENGTH
        THEN SubSeq(pushed, 1, Len(pushed) - 1) ELSE pushed

\* moving_average_history.push(val), then remove(0) once WINDOW_LENGTH is reached
push_moving_average(window, val) ==
    LET pushed == Append(window, val)
    IN  IF Len(pushed) >= WINDOW_LENGTH THEN Tail(pushed) ELSE pushed

\* the statistics recomputed by NormalizedValue::set from the new history
recompute_statistics(self, new_history) ==
    LET new_mean == mean(new_history)
    IN  [self EXCEPT !.history = new_history,
                     !.mean = new_mean,
                     !.deviation = std_deviation(new_history, new_mean)]

\* NormalizedValue::set: the new value of self and the returned flag
NormalizedValue_set(self, val) ==
    IF acceptable_new_value(self, val)
    THEN LET s1 == [self EXCEPT !.current = Some(val),
                                !.max = update_max(self, val),
                                !.min = update_min(self, val)]
             s2 == recompute_statistics(s1, push_history(self.history, val))
         IN  [nv |-> [s2 EXCEPT !.moving_average_history =
                                   push_moving_average(self.moving_average_history, val)],
              ret |-> TRUE]
    ELSE [nv |-> self, ret |-> FALSE]

\* normalize with a guard on a zero deviation
normalize_guarded(self, val) ==
    IF is_some(val) /\ is_some(self.mean) /\ is_some(self.deviation)
       /\ unwrap(self.deviation) # Zero
    THEN Some(FDiv(FSub(unwrap(val), unwrap(self.mean)), unwrap(self.deviation)))
    ELSE None

\* NormalizedValue::normalize
normalize(self, val) ==
    IF is_some(val)
    THEN IF is_some(self.mean) /\ is_some(self.deviation)
         THEN Some(FDiv(FSub(unwrap(val), unwrap(self.mean)), unwrap(self.deviation)))
         ELSE None
    ELSE None

\* NormalizedValue::_percent, each f32 operation rounded; it reads current,
\* min and max only
_percent(self) ==
    IF is_some(self.current)
    THEN LET v == unwrap(self.current)
             v100 == f32_round(FMul(f32_round(FSub(v, unwrap(self.min))), FromInt(100)))
             range == f32_round(FSub(unwrap(self.max), unwrap(self.min)))
             r == f32_round(FDiv(v100, range))
         IN  IF is_finite(r) THEN Some(r) ELSE Some(Zero)
    ELSE None

\* the fields _percent reads, in a new engine
Extremes_new == [current |-> None, min |-> None, max |-> None]

\* NormalizedValue::set on the fields _percent reads: the admission gate and
\* the assignments of current, max and min
set_extremes(self, val) ==
    IF acceptable_new_value(self, val)
    THEN [nv |-> [self EXCEPT !.current = Some(val),
                              !.max = update_max(self, val),
                              !.min = update_min(self, val)],
          ret |-> TRUE]
    ELSE [nv |-> self, ret |-> FALSE]

(***************************************************************************)
(* MuseModel: constants, messages and derived metrics                      *)
(***************************************************************************)
FOREHEAD_COUNTDOWN == 5

BLINK_COUNTDOWN == 5

CLENCH_COUNTDOWN == 5

\* electrode indices into the 4-element arrays (0-based, as in the source)
TP9 == 0

AF7 == 1

AF8 == 2

TP10 == 3

\* x[i] of a Rust array held as a sequence
At(x, i) == x[i + 1]

\* An f32 result of the derived-metric functions is rounded to the nearest
\* multiple of 1/F32_GRID; the statistics over these values are exact.
F32_GRID == 64

F32(x) ==
    IF x.k # "fin" THEN x
    ELSE LET whole == x.n \div x.d
             rest == x.n % x.d
         IN  Rat(whole * F32_GRID + (2 * rest * F32_GRID + x.d) \div (2 * x.d), F32_GRID)

\* std::f32::consts::E, to two fractional bits
E == Rat(11, 4)

\* the guard 1e-6 of calc_abolute_arousal
EPSILON == Rat(1, 1000000)

RECURSIVE IntPow(_, _)
IntPow(b, n) == IF n = 0 THEN FromInt(1) ELSE FMul(b, IntPow(b, n - 1))

\* E.powf(x) for an integer-valued x
powf(x) ==
    IF x.k = "nan" THEN NaN
    ELSE IF x.k = "inf" THEN IF x.n > 0 THEN PosInf ELSE Zero
    ELSE IF x.n >= 0 THEN IntPow(E, x.n)
    ELSE FDiv(FromInt(1), IntPow(E, -x.n))

\* fn average_from_front_electrodes
average_from_front_electrodes(x) ==
    FDiv(FAdd(powf(At(x, 1)), powf(At(x, 2))), FromInt(2))

\* a front asymmetry that subtracts AF8 from AF7
front_assymetry_reversed(self) == powf(FSub(At(self.alpha, AF7), At(self.alpha, AF8)))

\* MuseModel::front_assymetry
front_assymetry(self) == powf(FSub(At(self.alpha, AF8), At(self.alpha, AF7)))

\* MuseModel::calc_absolute_valence
calc_absolute_valence(self) ==
    F32(FDiv(front_assymetry(self), average_from_front_electrodes(self.theta)))

\* MuseModel::calc_abolute_arousal
calc_abolute_arousal(self) ==
    LET frontal_apha ==
            FDiv(FAdd(powf(At(self.alpha, AF7)), powf(At(self.alpha, AF8))), FromInt(2))
        frontal_theta ==
            FDiv(FAdd(powf(At(self.theta, AF7)), powf(At(self.theta, AF8))), FromInt(2))
    IN  F32(FDiv(frontal_theta, FAdd(frontal_apha, EPSILON)))

\* MuseModel::update_arousal: the model after self.arousal.set(abs_arousal)
\* (receive_packets drops the flag set returns)
update_arousal(self) ==
    [self EXCEPT !.arousal =
        NormalizedValue_set(self.arousal, calc_abolute_arousal(self)).nv]

\* MuseModel::update_valence: the model after self.valence.set(abs_valence)
update_valence(self) ==
    [self EXCEPT !.valence =
        NormalizedValue_set(self.valence, calc_absolute_valence(self)).nv]

\* the streams with a channel and a consumer thread, and those written in place
AsyncStreams == {"eeg", "alpha", "beta", "gamma"}

SyncStreams == {"delta", "theta", "other"}

Streams == AsyncStreams \cup SyncStreams

\* a MuseModel::new that leaves the blink counter armed
MuseModel_new_blinking(start_time) ==
    [most_recent_message_receive_time |-> start_time,
     accelerometer |-> <<Zero, Zero, Zero>>,
     gyro |-> <<Zero, Zero, Zero>>,
     alpha |-> <<Zero, Zero, Zero, Zero>>,
     beta |-> <<Zero, Zero, Zero, Zero>>,
     gamma |-> <<Zero, Zero, Zero, Zero>>,
     delta |-> <<Zero, Zero, Zero, Zero>>,
     theta |-> <<Zero, Zero, Zero, Zero>>,
     batt |-> 0,
     horseshoe |-> <<Zero, Zero, Zero, Zero>>,
     blink_countdown |-> BLINK_COUNTDOWN,
     touching_forehead_countdown |-> 0,
     jaw_clench_countdown |-> 0,
     arousal |-> NormalizedValue_new,
     valence |-> NormalizedValue_new]

\* the fields MuseModel::new gives the struct
MuseModel_new(start_time) ==
    [most_recent_message_receive_time |-> start_time,
     accelerometer |-> <<Zero, Zero, Zero>>,
     gyro |-> <<Zero, Zero, Zero>>,
     alpha |-> <<Zero, Zero, Zero, Zero>>,
     beta |-> <<Zero, Zero, Zero, Zero>>,
     gamma |-> <<Zero, Zero, Zero, Zero>>,
     delta |-> <<Zero, Zero, Zero, Zero>>,
     theta |-> <<Zero, Zero, Zero, Zero>>,
     batt |-> 0,
     horseshoe |-> <<Zero, Zero, Zero, Zero>>,
     blink_countdown |-> 0,
     touching_forehead_countdown |-> 0,
     jaw_clench_countdown |-> 0,
     arousal |-> NormalizedValue_new,
     valence |-> NormalizedValue_new]

\* the header row MuseModel::new names for each CSV file
Header(s) ==
    CASE s = "eeg" -> <<"Time", "TP9", "AF7", "AF8", "TP10">>
      [] s = "alpha" -> <<"Time", "Alpha TP9", "Alpha AF7", "Alpha AF8", "Alpha TP10">>
      [] s = "beta" -> <<"Time", "Beta TP9", "Beta AF7", "Beta AF8", "Beta TP10">>
      [] s = "gamma" -> <<"Time", "Gamma TP9", "Gamma AF7", "Gamma AF8", "Gamma TP10">>
      [] s = "delta" -> <<"Time", "Delta TP9", "Delta AF7", "Delta AF8", "Delta TP10">>
      [] s = "theta" -> <<"Time", "Theta TP9", "Theta AF7", "Theta AF8", "Theta TP10">>
      [] s = "other" -> <<"Time", "Record">>

\* the header rows MuseModel::new writes itself (delta, theta, other); the
\* files of the other streams are created by their consumer threads
MuseModel_new_files ==
    [s \in Streams |-> IF s \in SyncStreams THEN << Header(s) >> ELSE <<>>]

\* write_record: the time, then the values in order, as one CSV row
write_record(time, vals) == <<time>> \o vals

\* the MuseMessageType variant the consumer thread of a stream matches
\* consumer threads whose alpha and beta match arms are exchanged
VariantOf_exchanged(s) ==
    CASE s = "eeg" -> "Eeg"
      [] s = "alpha" -> "Beta"
      [] s = "beta" -> "Alpha"
      [] s = "gamma" -> "Gamma"

VariantOf(s) ==
    CASE s = "eeg" -> "Eeg"
      [] s = "alpha" -> "Alpha"
      [] s = "beta" -> "Beta"
      [] s = "gamma" -> "Gamma"

\* the first statements of a consumer thread: create_log_writer, then
\* writer.write_record(header_vec); c is the thread, [state, file, flushed]
consumer_start(c, s) ==
    [c EXCEPT !.state = "running", !.file = Append(@, Header(s))]

\* rx_log.iter().next() on a channel that holds ch, taking the newest message
iter_next_newest(ch) ==
    [message |-> ch[Len(ch)], rest |-> SubSeq(ch, 1, Len(ch) - 1)]

\* rx_log.iter().next() on a channel that holds ch: the oldest message
iter_next(ch) == [message |-> Head(ch), rest |-> Tail(ch)]

\* a consumer thread that writes its header row after each data row as well
consumer_receive_reheading(c, s, muse_message) ==
    IF muse_message.tag = VariantOf(s)
    THEN [c EXCEPT !.file = Append(Append(@, write_record(muse_message.message_time,
                                                           muse_message.v)),
                                   Header(s))]
    ELSE [c EXCEPT !.state = "panicked"]

\* a consumer thread on iter.next() = Some(muse_message): the row of its own
\* variant, a panic on any other
consumer_receive(c, s, muse_message) ==
    IF muse_message.tag = VariantOf(s)
    THEN [c EXCEPT !.file = Append(@, write_record(muse_message.message_time,
                                                   muse_message.v))]
    ELSE [c EXCEPT !.state = "panicked"]

\* a consumer thread that ends without flushing its writer
consumer_end_unflushed(c) == [c EXCEPT !.state = "finished"]

\* a consumer thread on iter.next() = None: writer.flush(), and the loop ends
consumer_end(c) == [c EXCEPT !.state = "finished", !.flushed = Len(c.file)]

\* MuseModel::flush_all
flush_all(st) ==
    [st EXCEPT !.flushed =
        [s \in Streams |-> IF s \in {"theta", "delta", "other"}
                           THEN Len(st.files[s]) ELSE @[s]]]

\* MuseModel::log_other: one row of other.csv
log_other(files, receive_time, other) ==
    [files EXCEPT !["other"] = Append(@, <<receive_time, other>>)]

\* MuseModel::log_delta
log_delta(self, files, receive_time) ==
    [files EXCEPT !["delta"] =
        Append(@, <<receive_time, At(self.delta, TP9), At(self.delta, AF7),
                    At(self.delta, AF8), At(self.delta, TP10)>>)]

\* MuseModel::log_theta
log_theta(self, files, receive_time) ==
    [files EXCEPT !["theta"] =
        Append(@, <<receive_time, At(self.theta, TP9), At(self.theta, AF7),
                    At(self.theta, AF8), At(self.theta, TP10)>>)]

\* a send that drops the message when the consumer thread has ended
send_dropping(st, stream, muse_message) ==
    IF st.consumer[stream] \in {"finished", "panicked"}
    THEN st
    ELSE [st EXCEPT !.channel[stream] = Append(@, muse_message)]

\* a send after which the producer writes the row to the file as well
send_and_write(st, stream, muse_message) ==
    IF st.consumer[stream] \in {"finished", "panicked"}
    THEN [st EXCEPT !.panicked = TRUE]
    ELSE [st EXCEPT !.channel[stream] = Append(@, muse_message),
                    !.files[stream] = Append(@, write_record(muse_message.message_time,
                                                             muse_message.v))]

\* Sender::send(..).expect(..): the message is queued when the receiver is
\* alive, and the producer panics when the consumer thread has ended
send(st, stream, muse_message) ==
    IF st.consumer[stream] \in {"finished", "panicked"}
    THEN [st EXCEPT !.panicked = TRUE]
    ELSE [st EXCEPT !.channel[stream] = Append(@, muse_message)]

\* the producer's state st = [self, files, channel, consumer, panicked, ret]
\* once a match arm of handle_muse_message has left the model as self1, logged
\* record to other.csv and returned Ok(flag)
logged_other(st, message_time, self1, record, flag) ==
    [st EXCEPT !.self = self1,
               !.files = log_other(st.files, message_time, record),
               !.ret = flag]

\* a TouchingForehead arm that reports updated numeric values
handle_touching_forehead_dirty(st, muse_message) ==
    IF muse_message.flag
    THEN logged_other(st, muse_message.message_time, st.self, <<"Battery", 1>>, TRUE)
    ELSE logged_other(st, muse_message.message_time,
                      [st.self EXCEPT !.touching_forehead_countdown = FOREHEAD_COUNTDOWN],
                      <<"Battery", 0>>, TRUE)

\* handle_muse_message, the arm MuseMessageType::TouchingForehead { touch }
handle_touching_forehead(st, muse_message) ==
    IF muse_message.flag
    THEN logged_other(st, muse_message.message_time, st.self, <<"Battery", 1>>, FALSE)
    ELSE logged_other(st, muse_message.message_time,
                      [st.self EXCEPT !.touching_forehead_countdown = FOREHEAD_COUNTDOWN],
                      <<"Battery", 0>>, FALSE)

\* a Blink arm that arms the jaw-clench counter as well
handle_blink_arming_clench(st, muse_message) ==
    IF muse_message.flag
    THEN logged_other(st, muse_message.message_time,
                      [st.self EXCEPT !.blink_countdown = BLINK_COUNTDOWN,
                                      !.jaw_clench_countdown = CLENCH_COUNTDOWN],
                      <<"Blink", 1>>, FALSE)
    ELSE logged_other(st, muse_message.message_time, st.self, <<"Blink", 0>>, FALSE)

\* a Blink arm that adds the reset constant to the remaining count
handle_blink_additive(st, muse_message) ==
    IF muse_message.flag
    THEN logged_other(st, muse_message.message_time,
                      [st.self EXCEPT !.blink_countdown = @ + BLINK_COUNTDOWN],
                      <<"Blink", 1>>, FALSE)
    ELSE logged_other(st, muse_message.message_time, st.self, <<"Blink", 0>>, FALSE)

\* handle_muse_message, the arm MuseMessageType::Blink { blink }
handle_blink(st, muse_message) ==
    IF muse_message.flag
    THEN logged_other(st, muse_message.message_time,
                      [st.self EXCEPT !.blink_countdown = BLINK_COUNTDOWN],
                      <<"Blink", 1>>, FALSE)
    ELSE logged_other(st, muse_message.message_time, st.self, <<"Blink", 0>>, FALSE)

\* a JawClench arm in which a false flag clears the counter
handle_jaw_clench_clearing(st, muse_message) ==
    IF muse_message.flag
    THEN logged_other(st, muse_message.message_time,
                      [st.self EXCEPT !.jaw_clench_countdown = CLENCH_COUNTDOWN],
                      <<"Clench", 1>>, FALSE)
    ELSE logged_other(st, muse_message.message_time,
                      [st.self EXCEPT !.jaw_clench_countdown = 0],
                      <<"Clench", 0>>, FALSE)

\* handle_muse_message, the arm MuseMessageType::JawClench { clench }
handle_jaw_clench(st, muse_message) ==
    IF muse_message.flag
    THEN logged_other(st, muse_message.message_time,
                      [st.self EXCEPT !.jaw_clench_countdown = CLENCH_COUNTDOWN],
                      <<"Clench", 1>>, FALSE)
    ELSE logged_other(st, muse_message.message_time, st.self, <<"Clench", 0>>, FALSE)

\* MuseModel::handle_muse_message on the producer's state st: the state after
\* the call, ret being the flag it returns
handle_muse_message(st, muse_message) ==
    LET message_time == muse_message.message_time
        v == muse_message.v
        tag == muse_message.tag
        other(self1, record, flag) ==
            logged_other(st, message_time, self1, record, flag)
    IN  CASE tag = "Accelerometer" ->
                other([st.self EXCEPT !.accelerometer = v], <<"Accel">> \o v, FALSE)
          [] tag = "Gyro" ->
                other([st.self EXCEPT !.gyro = v], <<"Gyro">> \o v, FALSE)
          [] tag = "Horseshoe" ->
                other([st.self EXCEPT !.horseshoe = v], <<"Horseshoe">> \o v, FALSE)
          [] tag = "Eeg" ->
                [send(st, "eeg", muse_message) EXCEPT !.ret = FALSE]
          [] tag = "Alpha" ->
                [send([st EXCEPT !.self.alpha = v], "alpha", muse_message)
                    EXCEPT !.ret = TRUE]
          [] tag = "Beta" ->
                [send([st EXCEPT !.self.beta = v], "beta", muse_message)
                    EXCEPT !.ret = TRUE]
          [] tag = "Gamma" ->
                [send([st EXCEPT !.self.gamma = v], "gamma", muse_message)
                    EXCEPT !.ret = TRUE]
          [] tag = "Delta" ->
                LET self1 == [st.self EXCEPT !.delta = v]
                IN  [st EXCEPT !.self = self1,
                               !.files = log_delta(self1, st.files, message_time),
                               !.ret = TRUE]
          [] tag = "Theta" ->
                LET self1 == [st.self EXCEPT !.theta = v]
                IN  [st EXCEPT !.self = self1,
                               !.files = log_theta(self1, st.files, message_time),
                               !.ret = TRUE]
          [] tag = "Batt" ->
                other([st.self EXCEPT !.batt = muse_message.batt],
                      <<"Battery", muse_message.batt>>, FALSE)
          [] tag = "TouchingForehead" -> handle_touching_forehead(st, muse_message)
          [] tag = "Blink" -> handle_blink(st, muse_message)
          [] tag = "JawClench" -> handle_jaw_clench(st, muse_message)

\* One turn of the loop of receive_packets. `updated_numeric_values ||
\* self.handle_muse_message(..)` evaluates its right operand, the call, only
\* while updated_numeric_values is still false.
\* the producer's state once handle_muse_message has returned st2
after_handle(st2, muse_message) ==
    [st2 EXCEPT !.updated_numeric_values = st2.ret /\ ~st2.panicked,
                !.handled = Append(@, muse_message)]

receive_one(st, muse_message) ==
    IF st.panicked THEN st
    ELSE IF st.updated_numeric_values
    THEN [st EXCEPT !.self.most_recent_message_receive_time =
                        muse_message.message_time]
    ELSE after_handle(
             handle_muse_message(
                 [st EXCEPT !.self.most_recent_message_receive_time =
                                muse_message.message_time],
                 muse_message),
             muse_message)

\* the loop of receive_packets over the batch, in arrival order
RECURSIVE receive_all(_, _)
receive_all(st, muse_messages) ==
    IF muse_messages = <<>> THEN st
    ELSE receive_all(receive_one(st, Head(muse_messages)), Tail(muse_messages))

\* MuseModel::receive_packets after the connection returned muse_messages:
\* the producer's state with the returned pair in `result`
\* the tail of receive_packets when updated_numeric_values is set: self1 is
\* the model after update_valence and update_arousal
normalized_result(st, self1) ==
    [st EXCEPT !.self = self1,
               !.result = <<normalize(self1.valence, moving_average(self1.valence)),
                            normalize(self1.arousal, moving_average(self1.arousal))>>]

\* the tail of receive_packets, after the loop over the batch
after_loop(st) ==
    IF st.panicked THEN st
    ELSE IF st.updated_numeric_values
    THEN normalized_result(st, update_arousal(update_valence(st.self)))
    ELSE [st EXCEPT !.result = <<None, None>>]

receive_packets(st0, muse_messages) ==
    after_loop(receive_all([st0 EXCEPT !.updated_numeric_values = FALSE,
                                       !.handled = <<>>], muse_messages))

\* MuseModel::is_jaw_clench
is_jaw_clench(self) == self.jaw_clench_countdown > 0

\* MuseModel::is_blink
is_blink(self) == self.blink_countdown > 0

\* MuseModel::is_touching_forehead
is_touching_forehead(self) == self.touching_forehead_countdown > 0

\* a count_down that stops one short of zero
count_down_floor_one(self) ==
    [self EXCEPT
        !.blink_countdown = IF @ > 1 THEN @ - 1 ELSE @,
        !.jaw_clench_countdown = IF @ > 1 THEN @ - 1 ELSE @,
        !.touching_forehead_countdown = IF @ > 1 THEN @ - 1 ELSE @]

\* a count_down without the guards
count_down_unguarded(self) ==
    [self EXCEPT
        !.blink_countdown = @ - 1,
        !.jaw_clench_countdown = @ - 1,
        !.touching_forehead_countdown = @ - 1]

\* MuseModel::count_down
count_down(self) ==
    [self EXCEPT
        !.blink_countdown = IF @ > 0 THEN @ - 1 ELSE @,
        !.jaw_clench_countdown = IF @ > 0 THEN @ - 1 ELSE @,
        !.touching_forehead_countdown = IF @ > 0 THEN @ - 1 ELSE @]

(***************************************************************************)
(* The OSC decoder (muse_packet.rs)                                        *)
(***************************************************************************)
\* nannou_osc::Type, the two variants the decoder accepts
Type_Float(x) == [t |-> "Float", f |-> x, i |-> 0]

Type_Int(n) == [t |-> "Int", f |-> Zero, i |-> n]

\* a raw OSC message: its address and its Option<Vec<Type>> argument list
\* (has_args is FALSE for None)
Message(addr, has_args, args) == [addr |-> addr, has_args |-> has_args, args |-> args]

\* a MuseMessageType value: the variant with its float, integer or boolean payload
MuseMessageType(tag, v, batt, flag) ==
    [tag |-> tag, v |-> v, batt |-> batt, flag |-> flag]

\* what a decoding step comes to: a value, no value, or a panic that unwinds
\* the calling thread
Ok(m) == [k |-> "some", m |-> m]

NoEvent == [k |-> "none", m |-> MuseMessageType("", <<>>, 0, FALSE)]

Panic == [k |-> "panic", m |-> MuseMessageType("", <<>>, 0, FALSE)]

\* fn get_float_from_args: ok is FALSE where the function panics
get_float_from_args(i, args) ==
    IF i + 1 > Len(args) THEN [ok |-> FALSE, f |-> Zero]
    ELSE IF args[i + 1].t = "Float" THEN [ok |-> TRUE, f |-> args[i + 1].f]
    ELSE [ok |-> FALSE, f |-> Zero]

\* fn get_int_from_args: ok is FALSE where the function panics
get_int_from_args(i, args) ==
    IF i + 1 > Len(args) THEN [ok |-> FALSE, i |-> 0]
    ELSE IF args[i + 1].t = "Int" THEN [ok |-> TRUE, i |-> args[i + 1].i]
    ELSE [ok |-> FALSE, i |-> 0]

\* i32::MAX, where `as i32` saturates
I32_MAX == 2147483647

\* the cast `f32 as i32`: towards zero, saturating, NaN to 0
as_i32(x) ==
    IF x.k = "nan" THEN 0
    ELSE IF x.k = "inf" THEN IF x.n > 0 THEN I32_MAX ELSE -I32_MAX - 1
    ELSE Sign(x.n) * (Abs(x.n) \div x.d)

\* a variant built from the Float arguments at the positions idx
floats_at(tag, idx, args) ==
    LET got == [j \in 1..Len(idx) |-> get_float_from_args(idx[j], args)]
    IN  IF \A j \in 1..Len(idx) : got[j].ok
        THEN Ok(MuseMessageType(tag, [j \in 1..Len(idx) |-> got[j].f], 0, FALSE))
        ELSE Panic

\* a flag variant in which only a positive integer counts as true
flag_at_positive(tag, args) ==
    LET got == get_int_from_args(0, args)
    IN  IF got.ok THEN Ok(MuseMessageType(tag, <<>>, 0, got.i > 0)) ELSE Panic

\* a variant built as `get_int_from_args(0, &args) != 0`
flag_at(tag, args) ==
    LET got == get_int_from_args(0, args)
    IN  IF got.ok THEN Ok(MuseMessageType(tag, <<>>, 0, got.i # 0)) ELSE Panic

\* the arm "/muse/batt": (arg 1 as f32 / arg 0 as f32) as i32, arg 1 read first
batt_at(args) ==
    LET num == get_int_from_args(1, args)
        den == get_int_from_args(0, args)
    IN  IF num.ok /\ den.ok
        THEN Ok(MuseMessageType("Batt", <<>>,
                                as_i32(FDiv(FromInt(num.i), FromInt(den.i))), FALSE))
        ELSE Panic

\* the addresses parse_muse_message_type matches
VectorAddresses ==
    {"/muse/eeg", "/muse/acc", "/muse/gyro", "/muse/elements/horseshoe",
     "/muse/elements/alpha_absolute", "/muse/elements/beta_absolute",
     "/muse/elements/gamma_absolute", "/muse/elements/delta_absolute",
     "/muse/elements/theta_absolute"}

FlagAddresses ==
    {"/muse/elements/touching_forehead", "/muse/elements/blink",
     "/muse/elements/jaw_clench"}

Addresses == VectorAddresses \cup FlagAddresses \cup {"/muse/batt"}

\* fn parse_muse_message_type: `args.expect(..)` comes first, then the match on
\* the address (the match is written twice, the first time for the log line)
parse_muse_message_type(raw_message) ==
    LET service == raw_message.addr
        args == raw_message.args
    IN  IF ~raw_message.has_args THEN Panic
        ELSE CASE service = "/muse/eeg" -> floats_at("Eeg", <<0, 0, 0, 0>>, args)
               [] service = "/muse/acc" -> floats_at("Accelerometer", <<0, 1, 2>>, args)
               [] service = "/muse/gyro" -> floats_at("Gyro", <<0, 1, 2>>, args)
               [] service = "/muse/elements/touching_forehead" ->
                      flag_at("TouchingForehead", args)
               [] service = "/muse/elements/horseshoe" ->
                      floats_at("Horseshoe", <<0, 1, 2, 3>>, args)
               [] service = "/muse/elements/alpha_absolute" ->
                      floats_at("Alpha", <<0, 1, 2, 3>>, args)
               [] service = "/muse/elements/beta_absolute" ->
                      floats_at("Beta", <<0, 1, 2, 3>>, args)
               [] service = "/muse/elements/gamma_absolute" ->
                      floats_at("Gamma", <<0, 1, 2, 3>>, args)
               [] service = "/muse/elements/delta_absolute" ->
                      floats_at("Delta", <<0, 1, 2, 3>>, args)
               [] service = "/muse/elements/theta_absolute" ->
                      floats_at("Theta", <<0, 1, 2, 3>>, args)
               [] service = "/muse/elements/blink" -> flag_at("Blink", args)
               [] service = "/muse/batt" -> batt_at(args)
               [] service = "/muse/elements/jaw_clench" -> flag_at("JawClench", args)
               [] OTHER -> NoEvent

\* a MuseMessage: the decoded variant stamped with message_time
MuseMessage(message_time, m) ==
    [message_time |-> message_time, tag |-> m.tag, v |-> m.v, batt |-> m.batt,
     flag |-> m.flag]

\* the loop of parse_muse_packet over raw_messages, muse_messages being the
\* vector built so far: [panicked, muse_messages]
RECURSIVE parse_muse_packet_loop(_, _, _)
parse_muse_packet_loop(message_time, raw_messages, muse_messages) ==
    IF raw_messages = <<>> THEN [panicked |-> FALSE, muse_messages |-> muse_messages]
    ELSE LET got == parse_muse_message_type(Head(raw_messages))
         IN  IF got.k = "panic"
             THEN [panicked |-> TRUE, muse_messages |-> <<>>]
             ELSE parse_muse_packet_loop(
                      message_time, Tail(raw_messages),
                      IF got.k = "some"
                      THEN Append(muse_messages, MuseMessage(message_time, got.m))
                      ELSE muse_messages)

\* fn parse_muse_packet, message_time being Local::now()
parse_muse_packet(message_time, raw_messages) ==
    parse_muse_packet_loop(message_time, raw_messages, <<>>)

(***************************************************************************)
(* State                                                                   *)
(***************************************************************************)
VARIABLES
    nv,         \* a NormalizedValue driven directly, as the unit tests do
    pre,        \* nv as it was before the last call
    op,         \* the last call made on nv: "new", "set" or "normalize"
    arg,        \* the argument of the last call
    ret,        \* what the last call returned
    admitted,   \* every value set has admitted, in admission order
    mode,       \* how the inputs of set are drawn: "free", "alt", "ramp" or "odd"
    muse_model, \* the fields of the MuseModel struct
    log_file,   \* the rows of each CSV file, the header row included
    channel,    \* the messages queued on each mpsc channel
    consumer,   \* the state of each consumer thread
    app_pc,     \* where AppState::update stands: "receive_packets", "count_down"
    clock,      \* Local::now(), counted in packets
    arrived,    \* every message the connection has returned, in arrival order
    batch,      \* the batch the last receive_packets call was given
    handled,    \* the messages that call passed to handle_muse_message
    result,     \* the pair that call returned
    before,     \* muse_model as it was before the last step of the update loop
    since,      \* per counter, the count_down calls since a handled message
                \* last armed it (-1: never armed), counted up to MaxTicks
    sender,     \* the Senders held by the MuseModel: "held" or "dropped"
    window,     \* the window: "open", or "closing" once window.close() was called
    flushed,    \* per CSV file, the rows a flush has taken to the file
    sent,       \* per channel, every message send has queued, in order
    started_late, \* a consumer thread started when its channel held messages
    writers,    \* per CSV file, the threads that have written rows to it
    producer_writes, \* the rows the last receive_packets call wrote to files itself
    frame_count, \* AppState::frame_count against TITLE: "title" until it
                \* exceeds TITLE, "past_title" from then on
    mandala,    \* the targets of the last transitions started on
                \* mandala_valence and mandala_arousal
    view_before, \* mandala and frame_count as the last update found them
    raw_packet, \* the raw messages unfolded from the packet given to parse_muse_packet
    decoded,    \* the vector of muse_messages parse_muse_packet returned
    decode_pc   \* the decoder: "idle", "received", "returned" or "panicked"

nvVars == <<nv, pre, op, arg, ret, admitted, mode>>

streamVars == <<sender, window, flushed, sent, started_late, writers,
                producer_writes>>

viewVars == <<frame_count, mandala, view_before>>

museVars == <<muse_model, log_file, channel, consumer, app_pc, clock, arrived,
              batch, handled, result, before, since, streamVars, viewVars>>

decodeVars == <<raw_packet, decoded, decode_pc>>

vars == <<nvVars, museVars, decodeVars>>

(***************************************************************************)
(* Bounds and inputs of the statistics engine                              *)
(***************************************************************************)
\* admitted values in a run with freely drawn inputs
MaxAdmitted == 10

\* freely drawn values at the start of a long run
FreeLen == 1

\* admitted values in a long run
MaxLong == 123

\* tests::test_normalized_value_history_with_negative_values: for i in -100..101
RampFirst == -100

RampLast == 100

\* values in a run over the vectors of tests::test_mean and test_deviation,
\* 1.0, 3.0, 5.0, 7.0
MaxOdd == 4

FreeVals == {FromInt(i) : i \in 0..2}

LongFreeVals == {FromInt(i) : i \in -1..2}

LongVals == {FromInt(0), FromInt(1)}

NonFinite == {NaN, PosInf, NegInf}

\* the values offered to set in the current state
SetInputs ==
    IF mode = "free" THEN
        IF Len(admitted) < MaxAdmitted THEN FreeVals \cup NonFinite ELSE NonFinite
    ELSE IF mode = "alt" THEN
        IF Len(admitted) < FreeLen THEN LongFreeVals \cup {NaN}
        ELSE IF Len(admitted) < MaxLong THEN LongVals \cup {NaN}
        ELSE {NaN}
    ELSE IF mode = "odd" THEN
        IF Len(admitted) < MaxOdd THEN {FromInt(2 * Len(admitted) + 1), NaN}
        ELSE {NaN}
    ELSE IF RampFirst + Len(admitted) <= RampLast
         THEN {FromInt(RampFirst + Len(admitted)), PosInf}
         ELSE {PosInf}

\* the values offered to normalize in the current state
NormalizeInputs ==
    {None, moving_average(nv), nv.min, nv.max, Some(NaN)}
        \cup {Some(v) : v \in FreeVals}

\* the three suppression counters
Counters == {"blink", "jaw_clench", "touching_forehead"}

\* count_down calls followed after a counter was armed
MaxTicks == 7

\* the message m is one that arms counter c when handle_muse_message gets it
Arms(m, c) ==
    \/ c = "blink" /\ m.tag = "Blink" /\ m.flag
    \/ c = "jaw_clench" /\ m.tag = "JawClench" /\ m.flag
    \/ c = "touching_forehead" /\ m.tag = "TouchingForehead" /\ ~m.flag

\* one of the messages of the sequence h arms counter c
Armed(h, c) == \E i \in 1..Len(h) : Arms(h[i], c)

\* AppState::new: mandala_valence.start_transition(0.0, 3.0, 0.0) and
\* mandala_arousal.start_transition(0.0, 3.0, 1.0)
AppState_new_mandala == [valence |-> Zero, arousal |-> FromInt(1)]

\* the model right after MuseModel::new(start_time), start_time being 0
MuseInit ==
    /\ muse_model = MuseModel_new(0)
    /\ log_file = MuseModel_new_files
    /\ channel = [s \in AsyncStreams |-> <<>>]
    /\ consumer = [s \in AsyncStreams |-> "spawned"]
    /\ app_pc = "receive_packets"
    /\ clock = 0
    /\ arrived = <<>>
    /\ batch = <<>>
    /\ handled = <<>>
    /\ result = <<None, None>>
    /\ before = MuseModel_new(0)
    /\ since = [c \in Counters |-> -1]
    /\ sender = "held"
    /\ window = "open"
    /\ flushed = [s \in Streams |-> 0]
    /\ sent = [s \in AsyncStreams |-> <<>>]
    /\ started_late = FALSE
    /\ writers = [s \in Streams |-> IF s \in SyncStreams THEN {"producer"} ELSE {}]
    /\ producer_writes = 0
    /\ frame_count = "title"
    /\ mandala = AppState_new_mandala
    /\ view_before = [mandala |-> AppState_new_mandala, frame_count |-> "title"]

\* no packet is being decoded
DecodeIdle ==
    /\ raw_packet = <<>>
    /\ decoded = <<>>
    /\ decode_pc = "idle"

\* a NormalizedValue right after NormalizedValue::new
NVNew(m) ==
    /\ nv = NormalizedValue_new
    /\ pre = NormalizedValue_new
    /\ op = "new"
    /\ arg = None
    /\ ret = None
    /\ admitted = <<>>
    /\ mode = m

NVInit(m) == MuseInit /\ DecodeIdle /\ NVNew(m)

\* a call nv.set(v)
SetReturned(r, v) ==
    /\ nv' = r.nv
    /\ pre' = nv
    /\ op' = "set"
    /\ arg' = v
    /\ ret' = r.ret
    /\ admitted' = IF r.ret THEN Append(admitted, v) ELSE admitted
    /\ UNCHANGED <<mode, museVars, decodeVars>>

SetCall(v) == SetReturned(NormalizedValue_set(nv, v), v)

\* a call nv.normalize(x)
NormalizeCall(x) ==
    /\ op' = "normalize"
    /\ arg' = x
    /\ ret' = normalize(nv, x)
    /\ pre' = nv
    /\ UNCHANGED <<nv, admitted, mode, museVars, decodeVars>>

\* The statistics engine under freely drawn inputs
InitNV == NVInit("free")

NextNV ==
    \/ \E v \in SetInputs : SetCall(v)
    \/ \E x \in NormalizeInputs : NormalizeCall(x)

SpecNV == InitNV /\ [][NextNV]_vars

\* The statistics engine over runs longer than its history
InitHistory == \E m \in {"alt", "ramp", "odd"} : NVInit(m)

NextHistory == \E v \in SetInputs : SetCall(v)

SpecHistory == InitHistory /\ [][NextHistory]_vars

(***************************************************************************)
(* The acquisition connection and the update loop                          *)
(***************************************************************************)
\* messages received in a run
MaxMessages == 2

F3(a, b, c) == <<FromInt(a), FromInt(b), FromInt(c)>>

F4(a, b, c, d) == <<FromInt(a), FromInt(b), FromInt(c), FromInt(d)>>

\* the decoded messages the connection may return: the variant (tag) with its
\* float payload v, its integer payload batt or its boolean payload flag
WireMessages ==
    {[tag |-> "Eeg", v |-> F4(1, 1, 1, 1), batt |-> 0, flag |-> FALSE],
     [tag |-> "Accelerometer", v |-> F3(1, 0, 1), batt |-> 0, flag |-> FALSE],
     [tag |-> "Gyro", v |-> F3(0, 1, 0), batt |-> 0, flag |-> FALSE],
     [tag |-> "Horseshoe", v |-> F4(1, 1, 0, 1), batt |-> 0, flag |-> FALSE],
     [tag |-> "Batt", v |-> <<>>, batt |-> 50, flag |-> FALSE],
     [tag |-> "Alpha", v |-> F4(0, 1, 0, 0), batt |-> 0, flag |-> FALSE],
     [tag |-> "Alpha", v |-> F4(1, 0, 1, 1), batt |-> 0, flag |-> FALSE],
     [tag |-> "Beta", v |-> F4(1, 0, 0, 1), batt |-> 0, flag |-> FALSE],
     [tag |-> "Gamma", v |-> F4(0, 0, 1, 1), batt |-> 0, flag |-> FALSE],
     [tag |-> "Delta", v |-> F4(0, 1, 1, 0), batt |-> 0, flag |-> FALSE],
     [tag |-> "Theta", v |-> F4(0, 1, 0, 1), batt |-> 0, flag |-> FALSE],
     [tag |-> "Theta", v |-> F4(1, 0, 0, 0), batt |-> 0, flag |-> FALSE]}
        \cup {[tag |-> t, v |-> <<>>, batt |-> 0, flag |-> b] :
                 t \in {"TouchingForehead", "Blink", "JawClench"}, b \in BOOLEAN}

\* the batches of at most n messages
Batches(n) == UNION {[1..k -> WireMessages] : k \in 0..n}

\* the producer's state, as the operators above take it
Producer ==
    [self |-> muse_model, files |-> log_file, channel |-> channel,
     consumer |-> consumer, panicked |-> FALSE, ret |-> FALSE,
     updated_numeric_values |-> FALSE, handled |-> <<>>, result |-> result,
     flushed |-> flushed]

\* parse_muse_packet stamps the messages of a packet with Local::now()
Stamped(b) ==
    [i \in 1..Len(b) |->
        [message_time |-> IF b = <<>> THEN clock ELSE clock + 1, tag |-> b[i].tag,
         v |-> b[i].v, batt |-> b[i].batt, flag |-> b[i].flag]]

\* the variables once receive_packets has returned the producer's state st
Returned(st, muse_messages) ==
    /\ muse_model' = st.self
    /\ log_file' = st.files
    /\ channel' = st.channel
    /\ handled' = st.handled
    /\ result' = st.result
    /\ app_pc' = IF st.panicked THEN "panicked" ELSE "count_down"
    /\ clock' = IF muse_messages = <<>> THEN clock ELSE clock + 1
    /\ arrived' = arrived \o muse_messages
    /\ batch' = muse_messages
    /\ before' = muse_model
    /\ since' = [c \in Counters |-> IF Armed(st.handled, c) THEN 0 ELSE since[c]]

\* AppState::update, the branch taken while ESC is down: log_other, flush_all
\* (window.close() follows); current_time is Local::now()
escape(st, current_time) ==
    flush_all([st EXCEPT !.files = log_other(st.files, current_time,
                                             <<"Application shutdown by ESC key">>)])

\* an update that starts a transition for every value receive_packets returns
start_transitions_unchecked(m, fc, res) ==
    IF fc = "past_title"
    THEN [valence |-> IF is_some(res[1]) THEN unwrap(res[1]) ELSE m.valence,
          arousal |-> IF is_some(res[2]) THEN unwrap(res[2]) ELSE m.arousal]
    ELSE m

\* AppState::update on the pair res receive_packets returned: past the title,
\* a transition is started towards each value that is Some and finite
start_transitions(m, fc, res) ==
    IF fc = "past_title"
    THEN [valence |-> IF is_some(res[1]) /\ is_finite(unwrap(res[1]))
                      THEN unwrap(res[1]) ELSE m.valence,
          arousal |-> IF is_some(res[2]) /\ is_finite(unwrap(res[2]))
                      THEN unwrap(res[2]) ELSE m.arousal]
    ELSE m

\* the rows the producer state st holds in the files it writes itself
OwnRows(st) == Len(st.files["delta"]) + Len(st.files["theta"]) + Len(st.files["other"])

\* the stream and view variables once the update that took the producer from
\* st0 (after the ESC branch) to st (after receive_packets) is over
Updated(st0, st, esc) ==
    /\ window' = IF esc THEN "closing" ELSE window
    /\ flushed' = st.flushed
    /\ sent' = [s \in AsyncStreams |->
                    sent[s] \o SubSeq(st.channel[s], Len(channel[s]) + 1,
                                      Len(st.channel[s]))]
    /\ writers' = [s \in Streams |->
                       IF st.files[s] # log_file[s]
                       THEN writers[s] \cup {"producer"} ELSE writers[s]]
    /\ producer_writes' = OwnRows(st) - OwnRows(st0)
    /\ view_before' = [mandala |-> mandala, frame_count |-> frame_count]
    /\ mandala' = IF st.panicked THEN mandala
                  ELSE start_transitions(mandala, frame_count, st.result)

\* AppState::update up to the call of count_down: the ESC branch when esc,
\* then inner_receiver.receive_packets() returns the batch b, stamped by
\* parse_muse_packet, MuseModel::receive_packets processes it, and the
\* mandalas are given what it returned
UpdateFrom(st0, b, esc) ==
    /\ Returned(receive_packets(st0, Stamped(b)), Stamped(b))
    /\ Updated(st0, receive_packets(st0, Stamped(b)), esc)

Update(b, esc) ==
    /\ app_pc = "receive_packets"
    /\ Len(arrived) + Len(b) <= MaxMessages
    /\ UpdateFrom(IF esc THEN escape(Producer, clock) ELSE Producer, b, esc)
    /\ UNCHANGED <<consumer, sender, started_late, frame_count, nvVars, decodeVars>>

\* an update while ESC is up
ReceivePackets(b) == Update(b, FALSE)

\* AppState::update, second half: self.muse_model.count_down()
CountDown ==
    /\ app_pc = "count_down"
    /\ muse_model' = count_down(muse_model)
    /\ app_pc' = "receive_packets"
    /\ before' = muse_model
    /\ since' = [c \in Counters |->
                    IF since[c] < 0 \/ since[c] >= MaxTicks THEN since[c]
                    ELSE since[c] + 1]
    /\ UNCHANGED <<log_file, channel, consumer, clock, arrived, batch, handled,
                   result, streamVars, viewVars, nvVars, decodeVars>>

Init == NVInit("idle")

Next ==
    \/ \E b \in Batches(MaxMessages - Len(arrived)) : ReceivePackets(b)
    \/ CountDown

Spec == Init /\ [][Next]_vars

(***************************************************************************)
(* The consumer threads, the shutdown and the frames drawn                 *)
(***************************************************************************)
\* consumer threads an I/O error ends in a run
MaxFailures == 1

\* the messages the connection may return in a run that follows the streams
StreamMessages ==
    {[tag |-> "Eeg", v |-> F4(1, 1, 1, 1), batt |-> 0, flag |-> FALSE],
     [tag |-> "Alpha", v |-> F4(0, 1, 0, 0), batt |-> 0, flag |-> FALSE],
     [tag |-> "Gyro", v |-> F3(0, 1, 0), batt |-> 0, flag |-> FALSE]}

StreamBatches(n) == UNION {[1..k -> StreamMessages] : k \in 0..n}

\* the messages the connection may return in a run that follows the mandalas
ViewMessages ==
    {[tag |-> "Alpha", v |-> F4(0, 1, 0, 0), batt |-> 0, flag |-> FALSE],
     [tag |-> "Alpha", v |-> F4(1, 0, 1, 1), batt |-> 0, flag |-> FALSE],
     [tag |-> "Theta", v |-> F4(0, 1, 0, 1), batt |-> 0, flag |-> FALSE],
     [tag |-> "Gyro", v |-> F3(0, 1, 0), batt |-> 0, flag |-> FALSE]}

ViewBatches(n) == UNION {[1..k -> ViewMessages] : k \in 0..n}

\* the consumer thread of stream s, as the operators take it
Consumer(s) == [state |-> consumer[s], file |-> log_file[s], flushed |-> flushed[s]]

\* the variables once the consumer thread of stream s has come to c
Ran(s, c) ==
    /\ consumer' = [consumer EXCEPT ![s] = c.state]
    /\ log_file' = [log_file EXCEPT ![s] = c.file]
    /\ flushed' = [flushed EXCEPT ![s] = c.flushed]
    /\ writers' = [writers EXCEPT ![s] = IF c.file # log_file[s] THEN @ \cup {s} ELSE @]

\* the consumer thread of s starts: it creates its file and writes the header
ConsumerStart(s) ==
    /\ consumer[s] = "spawned"
    /\ Ran(s, consumer_start(Consumer(s), s))
    /\ started_late' = (started_late \/ channel[s] # <<>>)
    /\ UNCHANGED <<muse_model, channel, app_pc, clock, arrived, batch, handled,
                   result, before, since, sender, window, sent, producer_writes, viewVars, nvVars, decodeVars>>

\* the consumer thread of s takes the next message off its channel
ConsumerReceive(s) ==
    /\ consumer[s] = "running"
    /\ channel[s] # <<>>
    /\ Ran(s, consumer_receive(Consumer(s), s, iter_next(channel[s]).message))
    /\ channel' = [channel EXCEPT ![s] = iter_next(@).rest]
    /\ UNCHANGED <<muse_model, app_pc, clock, arrived, batch, handled, result,
                   before, since, sender, window, sent, started_late,
                   producer_writes, viewVars, nvVars, decodeVars>>

\* the channel of s is empty and its Sender dropped: iter.next() is None
ConsumerEnd(s) ==
    /\ consumer[s] = "running"
    /\ channel[s] = <<>>
    /\ sender = "dropped"
    /\ Ran(s, consumer_end(Consumer(s)))
    /\ UNCHANGED <<muse_model, channel, app_pc, clock, arrived, batch, handled,
                   result, before, since, sender, window, sent, started_late, producer_writes, viewVars, nvVars, decodeVars>>

\* an I/O error in the consumer thread of s: an expect panics, the thread
\* unwinds and its Receiver is dropped with what was queued
ConsumerFail(s) ==
    /\ consumer[s] \in {"spawned", "running"}
    /\ Cardinality({t \in AsyncStreams : consumer[t] = "panicked"}) < MaxFailures
    /\ consumer' = [consumer EXCEPT ![s] = "panicked"]
    /\ channel' = [channel EXCEPT ![s] = <<>>]
    /\ UNCHANGED <<muse_model, log_file, app_pc, clock, arrived, batch, handled,
                   result, before, since, streamVars, viewVars, nvVars, decodeVars>>

\* AppState::draw takes frame_count past TITLE
Draw ==
    /\ frame_count = "title"
    /\ frame_count' = "past_title"
    /\ UNCHANGED <<muse_model, log_file, channel, consumer, app_pc, clock, arrived,
                   batch, handled, result, before, since, streamVars, mandala,
                   view_before, nvVars, decodeVars>>

\* the AppState, and with it the MuseModel and its four Senders, is dropped:
\* after window.close() once the update is over, or when the update panicked
DropModel ==
    /\ sender = "held"
    /\ \/ window = "closing" /\ app_pc = "receive_packets"
       \/ app_pc = "panicked"
    /\ sender' = "dropped"
    /\ app_pc' = IF app_pc = "panicked" THEN "panicked" ELSE "closed"
    /\ UNCHANGED <<muse_model, log_file, channel, consumer, clock, arrived, batch,
                   handled, result, before, since, window, flushed, sent,
                   started_late, writers, producer_writes, viewVars,
                   nvVars, decodeVars>>

\* a step of one of the four consumer threads
ConsumerStep ==
    \E s \in AsyncStreams :
        ConsumerStart(s) \/ ConsumerReceive(s) \/ ConsumerEnd(s)

\* The update loop, the shutdown and the four consumer threads
InitStreams == NVInit("idle")

NextStreams ==
    \/ \E b \in StreamBatches(MaxMessages - Len(arrived)) :
           \E esc \in (IF window = "open" THEN BOOLEAN ELSE {FALSE}) :
               (b # <<>> \/ esc) /\ Update(b, esc)
    \/ CountDown
    \/ DropModel
    \/ ConsumerStep
    \/ \E s \in AsyncStreams : ConsumerFail(s)

SpecStreams == InitStreams /\ [][NextStreams]_vars

\* The same while no I/O operation fails, the consumer threads being
\* scheduled fairly
DrainMessages ==
    {[tag |-> "Eeg", v |-> F4(1, 1, 1, 1), batt |-> 0, flag |-> FALSE],
     [tag |-> "Alpha", v |-> F4(0, 1, 0, 0), batt |-> 0, flag |-> FALSE]}

DrainBatches(n) == UNION {[1..k -> DrainMessages] : k \in 0..n}

InitDrain == NVInit("idle")

NextDrain ==
    \/ \E b \in DrainBatches(MaxMessages - Len(arrived)) :
           \E esc \in (IF window = "open" THEN BOOLEAN ELSE {FALSE}) :
               (b # <<>> \/ esc) /\ Update(b, esc)
    \/ CountDown
    \/ DropModel
    \/ ConsumerStep

SpecDrain ==
    /\ InitDrain
    /\ [][NextDrain]_vars
    /\ \A s \in AsyncStreams :
           WF_vars(ConsumerStart(s) \/ ConsumerReceive(s) \/ ConsumerEnd(s))

\* The update loop and the frames drawn
InitView == NVInit("idle")

NextView ==
    \/ \E b \in ViewBatches(MaxMessages - Len(arrived)) : ReceivePackets(b)
    \/ CountDown
    \/ Draw

SpecView == InitView /\ [][NextView]_vars

(***************************************************************************)
(* bound_normalized_value on one input                                     *)
(***************************************************************************)
\* f32::max: the greater of the two, the other one when one is NaN
f32_max(a, b) ==
    IF a.k = "nan" THEN b ELSE IF b.k = "nan" THEN a ELSE IF FLt(a, b) THEN b ELSE a

\* f32::min: the lesser of the two, the other one when one is NaN
f32_min(a, b) ==
    IF a.k = "nan" THEN b ELSE IF b.k = "nan" THEN a ELSE IF FLt(b, a) THEN b ELSE a

\* a clamp to [-3, 3]
bound_normalized_value_clamping(normalized) ==
    f32_min(f32_max(normalized, FromInt(-3)), FromInt(3))

\* fn bound_normalized_value: normalized.max(3.0).min(-3.0)
bound_normalized_value(normalized) ==
    f32_min(f32_max(normalized, FromInt(3)), FromInt(-3))

\* the inputs are the multiples of 1/8 up to MaxEighths eighths either way
MaxEighths == 32

BoundInputs == {Rat(i, 8) : i \in -MaxEighths..MaxEighths} \cup NonFinite

\* bound_normalized_value is about to be called with x
BoundGiven(x) ==
    /\ nv = NormalizedValue_new
    /\ pre = NormalizedValue_new
    /\ op = "given"
    /\ arg = Some(x)
    /\ ret = None
    /\ admitted = <<>>
    /\ mode = "bound"

\* the call bound_normalized_value(x) returns
BoundCall ==
    /\ op = "given"
    /\ mode = "bound"
    /\ op' = "bound_normalized_value"
    /\ ret' = Some(bound_normalized_value(unwrap(arg)))
    /\ UNCHANGED <<nv, pre, arg, admitted, mode, museVars, decodeVars>>

InitBound == \E x \in BoundInputs : MuseInit /\ DecodeIdle /\ BoundGiven(x)

NextBound == BoundCall

SpecBound == InitBound /\ [][NextBound]_vars

(***************************************************************************)
(* _percent over f32 values whose products with 100 are rounded            *)
(***************************************************************************)
\* values offered above 671088
MaxPercentVals == 4

\* values admitted in a run
MaxPercentSets == 3

\* 0, and the integers from 671088, the first above 2^26 / 100; all are f32
\* values, and the products of the latter with 100 need 27 bits
PercentInputs ==
    {FromInt(671088 + i) : i \in 0..MaxPercentVals} \cup {Zero, NaN}

PercentNew ==
    /\ nv = Extremes_new
    /\ pre = Extremes_new
    /\ op = "new"
    /\ arg = None
    /\ ret = None
    /\ admitted = <<>>
    /\ mode = "percent"

\* a call nv.set(v), followed on the fields _percent reads
PercentSet(v) ==
    /\ mode = "percent"
    /\ Len(admitted) < MaxPercentSets \/ ~is_finite(v)
    /\ SetReturned(set_extremes(nv, v), v)

\* a call nv._percent()
PercentCall ==
    /\ mode = "percent"
    /\ op' = "_percent"
    /\ arg' = None
    /\ ret' = _percent(nv)
    /\ pre' = nv
    /\ UNCHANGED <<nv, admitted, mode, museVars, decodeVars>>

InitPercent == MuseInit /\ DecodeIdle /\ PercentNew

NextPercent ==
    \/ \E v \in PercentInputs : PercentSet(v)
    \/ PercentCall

SpecPercent == InitPercent /\ [][NextPercent]_vars

(***************************************************************************)
(* The decoder on one packet                                               *)
(***************************************************************************)
\* raw messages in a packet
MaxPacket == 2

FourFloats ==
    <<Type_Float(FromInt(1)), Type_Float(FromInt(2)), Type_Float(FromInt(3)),
      Type_Float(FromInt(4))>>

ThreeFloats == SubSeq(FourFloats, 1, 3)

FourInts == <<Type_Int(1), Type_Int(2), Type_Int(3), Type_Int(4)>>

\* the raw messages a packet may hold: well-formed ones, ones with an argument
\* missing or of the wrong type, ones without an argument list, and ones to
\* an address the decoder does not know
RawMessages ==
    {Message(a, TRUE, l) : a \in VectorAddresses, l \in {FourFloats, ThreeFloats, FourInts}}
        \cup {Message(a, TRUE, l) :
                 a \in FlagAddresses,
                 l \in {<<Type_Int(0)>>, <<Type_Int(1)>>, <<Type_Int(-3)>>,
                        <<Type_Float(FromInt(1))>>, <<>>}}
        \cup {Message("/muse/batt", TRUE, l) :
                 l \in {<<Type_Int(2), Type_Int(100)>>, <<Type_Int(100), Type_Int(50)>>,
                        <<Type_Int(0), Type_Int(1)>>, <<Type_Int(50)>>}}
        \cup {Message("/muse/elements/is_good", TRUE, l) : l \in {FourFloats, <<>>}}
        \cup {Message(a, FALSE, <<>>) : a \in {"/muse/eeg", "/muse/elements/is_good"}}

\* the packets of at most n raw messages
Packets(n) == UNION {[1..k -> RawMessages] : k \in 0..n}

\* packet.unfold(&mut raw_messages) has produced p
Received(p) ==
    /\ raw_packet = p
    /\ decoded = <<>>
    /\ decode_pc = "received"

\* the variables once parse_muse_packet has come to r
Parsed(r) ==
    /\ decoded' = r.muse_messages
    /\ decode_pc' = IF r.panicked THEN "panicked" ELSE "returned"

\* parse_muse_packet(addr, packet) runs on the received packet
ParsePacket ==
    /\ decode_pc = "received"
    /\ Parsed(parse_muse_packet(clock + 1, raw_packet))
    /\ clock' = clock + 1
    /\ UNCHANGED <<raw_packet, muse_model, log_file, channel, consumer, app_pc,
                   arrived, batch, handled, result, before, since, streamVars,
                   viewVars, nvVars>>

InitDecode == \E p \in Packets(MaxPacket) : MuseInit /\ NVNew("idle") /\ Received(p)

NextDecode == ParsePacket

SpecDecode == InitDecode /\ [][NextDecode]_vars

(***************************************************************************)
(* Reference definitions used by the properties                            *)
(***************************************************************************)
Min2(a, b) == IF a < b THEN a ELSE b

LastN(s, n) == SubSeq(s, Len(s) - n + 1, Len(s))

Range(s) == {s[i] : i \in 1..Len(s)}

\* the integer sum of a sequence of integer-valued floats
RECURSIVE IntSum(_)
IntSum(s) == IF s = <<>> THEN 0 ELSE s[1].n + IntSum(Tail(s))

RECURSIVE IntSquareSum(_)
IntSquareSum(s) == IF s = <<>> THEN 0 ELSE s[1].n * s[1].n + IntSquareSum(Tail(s))

\* the arithmetic mean of a sequence of integer-valued floats
ArithMean(s) == IF s = <<>> THEN None ELSE Some(Rat(IntSum(s), Len(s)))

\* the population standard deviation: sqrt(E[x^2] - E[x]^2)
PopulationDeviation(s) ==
    IF s = <<>> THEN None
    ELSE Some(FSqrt(Rat(Len(s) * IntSquareSum(s) - IntSum(s) * IntSum(s),
                        Len(s) * Len(s))))

MinOf(s) == CHOOSE x \in Range(s) : \A y \in Range(s) : ~FLt(y, x)

MaxOf(s) == CHOOSE x \in Range(s) : \A y \in Range(s) : ~FLt(x, y)

(***************************************************************************)
(* Properties of the statistics engine                                     *)
(***************************************************************************)
\* C3: after any sequence of set calls, moving_average() is the arithmetic
\* mean of the last min(WINDOW_LENGTH, count) admitted values, WINDOW_LENGTH
\* being 10, and None iff nothing was admitted.
C3_MovingAverageOfLastW ==
    moving_average(nv) =
        ArithMean(LastN(admitted, Min2(WINDOW_LENGTH, Len(admitted))))

\* C4: set(v) returns true and admits v iff v is finite and there is no
\* current value or v differs from it; nothing else filters, so a value that
\* equals an earlier but not the current value is admitted again.
C4_AdmissionGate ==
    op = "set" =>
        /\ ret = (/\ is_finite(arg)
                  /\ (pre.current = None \/ arg # unwrap(pre.current)))
        /\ ret => /\ nv.current = Some(arg)
                  /\ nv.history[Len(nv.history)] = arg
                  /\ nv.moving_average_history[Len(nv.moving_average_history)] = arg
        /\ ~ret => nv = pre

C4_Witness ==
    /\ op = "set"
    /\ ret
    /\ Len(admitted) >= 3
    /\ admitted[Len(admitted)] = admitted[Len(admitted) - 2]
    /\ nv.current = Some(admitted[Len(admitted) - 2])

\* C5: a set(v) that repeats the current value, or offers a non-finite value,
\* returns false and leaves current, min, max, mean, deviation, the history
\* and the moving-average window unchanged.
C5_RepeatedSetRejected ==
    (op = "set" /\ (pre.current = Some(arg) \/ ~is_finite(arg))) =>
        /\ ret = FALSE
        /\ nv.current = pre.current
        /\ nv.min = pre.min
        /\ nv.max = pre.max
        /\ nv.mean = pre.mean
        /\ nv.deviation = pre.deviation
        /\ nv.history = pre.history
        /\ nv.moving_average_history = pre.moving_average_history

C5_Witness ==
    /\ op = "set"
    /\ admitted # <<>>
    /\ arg = admitted[Len(admitted)]
    /\ pre.current = Some(arg)
    /\ ret = FALSE

\* C6: the history never holds more than HISTORY_LENGTH values and is exactly
\* the last min(HISTORY_LENGTH, count) admitted values in admission order;
\* beyond HISTORY_LENGTH admitted values its length is HISTORY_LENGTH.
C6_HistoryIsLastAdmitted ==
    /\ Len(nv.history) <= HISTORY_LENGTH
    /\ nv.history = LastN(admitted, Min2(HISTORY_LENGTH, Len(admitted)))
    /\ Len(admitted) > HISTORY_LENGTH => Len(nv.history) = HISTORY_LENGTH

C6_Witness ==
    /\ Len(admitted) = HISTORY_LENGTH + 2
    /\ Len(nv.history) = HISTORY_LENGTH
    /\ nv.history[1] = admitted[3]
    /\ admitted[1] \notin Range(nv.history)

C8_GlobalExtremes ==
    /\ admitted = <<>> => nv.min = None /\ nv.max = None
    /\ admitted # <<>> => /\ nv.min = Some(MinOf(admitted))
                          /\ nv.max = Some(MaxOf(admitted))
    /\ (op = "set" /\ is_some(pre.min)) =>
           /\ ~FLt(unwrap(pre.min), unwrap(nv.min))
           /\ ~FLt(unwrap(nv.max), unwrap(pre.max))

\* the end of tests::test_normalized_value_history_with_negative_values
C8_Witness ==
    /\ mode = "ramp"
    /\ Len(admitted) = RampLast - RampFirst + 1
    /\ nv.min = Some(FromInt(RampFirst))
    /\ nv.history[1] = FromInt(-19)
    /\ FLt(unwrap(nv.min), MinOf(nv.history))
    /\ nv.mean = Some(Rat(81, 2))

\* C9: with nothing admitted, mean(), deviation(), moving_average() and
\* normalize(x) for every x are None, and so are mean and std_deviation of an
\* empty vector.
C9_UndefinedBeforeAdmission ==
    Len(nv.history) = 0 =>
        /\ nv.mean = None
        /\ nv.deviation = None
        /\ moving_average(nv) = None
        /\ \A x \in NormalizeInputs : normalize(nv, x) = None
        /\ op = "normalize" => ret = None
        /\ mean(<<>>) = None
        /\ std_deviation(<<>>, mean(<<>>)) = None

C9_Witness ==
    /\ Len(nv.history) = 0
    /\ op = "normalize"
    /\ arg = Some(FromInt(1))
    /\ ret = None

\* C10: normalize(val) is None iff val is None or the mean or the deviation
\* is undefined; otherwise it is Some((v - mean) / deviation) with no guard
\* on the divisor, so a zero deviation gives a non-finite result.
C10_NormalizeUnguarded ==
    op = "normalize" =>
        /\ ret = None <=> (arg = None \/ nv.mean = None \/ nv.deviation = None)
        /\ ret # None =>
               ret = Some(FDiv(FSub(unwrap(arg), unwrap(nv.mean)),
                               unwrap(nv.deviation)))
        /\ (ret # None /\ nv.deviation = Some(Zero)) => ~is_finite(unwrap(ret))

C10_Witness ==
    /\ op = "normalize"
    /\ nv.deviation = Some(Zero)
    /\ arg = Some(FromInt(2))
    /\ ret = Some(PosInf)


(***************************************************************************)
(* Properties of receive_packets                                           *)
(***************************************************************************)
\* the persistence stream of a message variant
StreamOf(tag) ==
    CASE tag = "Eeg" -> "eeg"
      [] tag = "Alpha" -> "alpha"
      [] tag = "Beta" -> "beta"
      [] tag = "Gamma" -> "gamma"
      [] tag = "Delta" -> "delta"
      [] tag = "Theta" -> "theta"
      [] OTHER -> "other"

\* the messages received so far that belong on stream s
ReceivedFor(s) == Cardinality({i \in 1..Len(arrived) : StreamOf(arrived[i].tag) = s})

\* the data rows of stream s, written or still queued on its channel
DeliveredTo(s) ==
    (IF log_file[s] = <<>> THEN 0 ELSE Len(log_file[s]) - 1)
        + (IF s \in AsyncStreams THEN Len(channel[s]) ELSE 0)

\* the payload of the last message with this tag received so far
LastReceived(tag) ==
    LET at == {i \in 1..Len(arrived) : arrived[i].tag = tag}
    IN  IF at = {} THEN None
        ELSE Some(arrived[CHOOSE i \in at : \A j \in at : j <= i])

\* C1: receive_packets passes every message of the batch, in arrival order,
\* to handle_muse_message, and each message received yields exactly one row
\* or one channel send on its stream, also after a band-power message of the
\* same batch.
C1_EveryMessageHandled ==
    app_pc # "panicked" =>
        /\ handled = batch
        /\ \A s \in Streams : DeliveredTo(s) = ReceivedFor(s)

\* C2: after receive_packets, each channel-state field holds the payload of
\* the last message of its kind received so far, or its initial zero value.
C2_FieldsHoldLastReceived ==
    app_pc # "panicked" =>
        /\ \A f \in {"Alpha", "Beta", "Gamma", "Delta", "Theta", "Horseshoe"} :
               LET last == LastReceived(f)
                   field == CASE f = "Alpha" -> muse_model.alpha
                              [] f = "Beta" -> muse_model.beta
                              [] f = "Gamma" -> muse_model.gamma
                              [] f = "Delta" -> muse_model.delta
                              [] f = "Theta" -> muse_model.theta
                              [] f = "Horseshoe" -> muse_model.horseshoe
               IN  field = IF last = None THEN F4(0, 0, 0, 0) ELSE unwrap(last).v
        /\ muse_model.accelerometer =
               IF LastReceived("Accelerometer") = None THEN F3(0, 0, 0)
               ELSE unwrap(LastReceived("Accelerometer")).v
        /\ muse_model.gyro =
               IF LastReceived("Gyro") = None THEN F3(0, 0, 0)
               ELSE unwrap(LastReceived("Gyro")).v
        /\ muse_model.batt =
               IF LastReceived("Batt") = None THEN 0
               ELSE unwrap(LastReceived("Batt")).batt

(***************************************************************************)
(* The suppression counters                                                *)
(***************************************************************************)
\* the counter c of the model self, its reset constant and its accessor
CounterOf(self, c) ==
    IF c = "blink" THEN self.blink_countdown
    ELSE IF c = "jaw_clench" THEN self.jaw_clench_countdown
    ELSE self.touching_forehead_countdown

ResetOf(c) ==
    IF c = "blink" THEN BLINK_COUNTDOWN
    ELSE IF c = "jaw_clench" THEN CLENCH_COUNTDOWN
    ELSE FOREHEAD_COUNTDOWN

IsActive(self, c) ==
    IF c = "blink" THEN is_blink(self)
    ELSE IF c = "jaw_clench" THEN is_jaw_clench(self)
    ELSE is_touching_forehead(self)

\* C11: k count_down calls after a handled message armed a counter, with no
\* trigger handled since, the counter is N - k down to exactly 0 at k = N, and
\* its accessor (is_blink, is_jaw_clench, is_touching_forehead) is true for
\* k < N and false from the N-th call on.
C11_CountdownReachesZero ==
    \A c \in Counters :
        since[c] >= 0 =>
            /\ CounterOf(muse_model, c) =
                   IF since[c] < ResetOf(c) THEN ResetOf(c) - since[c] ELSE 0
            /\ IsActive(muse_model, c) <=> since[c] < ResetOf(c)

\* the N-th count_down call after a Blink{true} has just taken the counter
\* from 1 to 0
C11_Witness ==
    /\ since["blink"] = BLINK_COUNTDOWN
    /\ before.blink_countdown = 1
    /\ muse_model.blink_countdown = 0
    /\ ~is_blink(muse_model)

\* C12: a trigger handled by receive_packets leaves its counter at exactly N,
\* whatever it was, and no counter ever exceeds N.
C12_TriggerRearmsToReset ==
    \A c \in Counters :
        /\ CounterOf(muse_model, c) <= ResetOf(c)
        /\ (app_pc = "count_down" /\ Armed(handled, c)) =>
               CounterOf(muse_model, c) = ResetOf(c)

\* a Blink{true} was handled while the counter was still running
C12_Witness ==
    /\ app_pc = "count_down"
    /\ Armed(handled, "blink")
    /\ before.blink_countdown > 0
    /\ before.blink_countdown < BLINK_COUNTDOWN
    /\ muse_model.blink_countdown = BLINK_COUNTDOWN

C14_CountDownDecrements ==
    \A c \in Counters :
        /\ CounterOf(muse_model, c) >= 0
        /\ CounterOf(muse_model, c) <= ResetOf(c)
        /\ app_pc = "receive_packets" =>
               CounterOf(muse_model, c) =
                   IF CounterOf(before, c) > 0 THEN CounterOf(before, c) - 1 ELSE 0

\* count_down ran after an empty batch: blink went from 3 to 2, jaw-clench
\* stayed at 0
C14_Witness ==
    /\ app_pc = "receive_packets"
    /\ batch = <<>>
    /\ before.blink_countdown = 3
    /\ muse_model.blink_countdown = 2
    /\ before.jaw_clench_countdown = 0
    /\ muse_model.jaw_clench_countdown = 0

(***************************************************************************)
(* The derived metrics                                                     *)
(***************************************************************************)
BandTags == {"Alpha", "Beta", "Gamma", "Delta", "Theta"}

\* the batch b holds a band-power message
HasBand(b) == \E i \in 1..Len(b) : b[i].tag \in BandTags

\* the payload of the last message of the given kind in b, or dflt
LastIn(b, tag, dflt) ==
    IF \E i \in 1..Len(b) : b[i].tag = tag
    THEN b[CHOOSE i \in 1..Len(b) :
               /\ b[i].tag = tag
               /\ \A j \in (i + 1)..Len(b) : b[j].tag # tag].v
    ELSE dflt

\* the fields the metrics read, once every message of b has been dispatched
Dispatched(self, b) ==
    [self EXCEPT !.alpha = LastIn(b, "Alpha", self.alpha),
                 !.theta = LastIn(b, "Theta", self.theta)]

\* C15: a receive_packets call whose batch holds no band-power message leaves
\* valence and arousal untouched and returns (None, None); a call whose batch
\* holds one offers to each engine, once, the metric of the model with the
\* whole batch dispatched.
C15_RecomputedOnDirtyBatch ==
    app_pc = "count_down" =>
        IF ~HasBand(batch)
        THEN /\ muse_model.valence = before.valence
             /\ muse_model.arousal = before.arousal
             /\ result = <<None, None>>
        ELSE /\ muse_model.valence =
                    NormalizedValue_set(
                        before.valence,
                        calc_absolute_valence(Dispatched(before, batch))).nv
             /\ muse_model.arousal =
                    NormalizedValue_set(
                        before.arousal,
                        calc_abolute_arousal(Dispatched(before, batch))).nv

\* C16: receive_packets returns None for a metric whose engine admitted no
\* value during the call.
C16_NoneWithoutAdmission ==
    app_pc = "count_down" =>
        /\ muse_model.valence = before.valence => result[1] = None
        /\ muse_model.arousal = before.arousal => result[2] = None

(***************************************************************************)
(* The decoder                                                             *)
(***************************************************************************)
\* the number of Float arguments a vector-valued address carries
Arity(addr) == IF addr \in {"/muse/acc", "/muse/gyro"} THEN 3 ELSE 4

\* the address is one the decoder knows
Recognized(raw) == raw.addr \in Addresses

\* the message carries the arguments its address requires, of the right type
WellFormed(raw) ==
    /\ Recognized(raw)
    /\ raw.has_args
    /\ IF raw.addr \in VectorAddresses
       THEN /\ Len(raw.args) >= Arity(raw.addr)
            /\ \A j \in 1..Arity(raw.addr) : raw.args[j].t = "Float"
       ELSE IF raw.addr \in FlagAddresses
       THEN Len(raw.args) >= 1 /\ raw.args[1].t = "Int"
       ELSE Len(raw.args) >= 2 /\ raw.args[1].t = "Int" /\ raw.args[2].t = "Int"

\* parse_muse_packet has run on raw_packet
DecodeDone == decode_pc \in {"returned", "panicked"}

\* how many messages of the packet satisfy P
CountIn(p, P(_)) == Cardinality({i \in 1..Len(p) : P(p[i])})

\* every message of the packet was decoded, so decoded[i] comes from raw_packet[i]
AllDecoded == decode_pc = "returned" /\ Len(decoded) = Len(raw_packet)

\* the variant a flag address decodes to
FlagTag(addr) ==
    IF addr = "/muse/elements/blink" THEN "Blink"
    ELSE IF addr = "/muse/elements/jaw_clench" THEN "JawClench"
    ELSE "TouchingForehead"

\* C17: on a packet holding messages with an argument missing at its index
\* or of the wrong type, parse_muse_packet does not abort: it returns, and
\* returns an event for every well-formed message. (Messages without any
\* argument list are left to C18.)
C17_MalformedMessageSkipped ==
    (DecodeDone /\ \A i \in 1..Len(raw_packet) : raw_packet[i].has_args)
        => /\ decode_pc = "returned"
           /\ Len(decoded) >= CountIn(raw_packet, WellFormed)

\* C18: on a packet whose recognized messages are all well-formed,
\* parse_muse_packet returns, whatever the arguments of the messages to unknown
\* addresses (an absent list included), one event for each recognized message.
C18_UnknownAddressIgnored ==
    (DecodeDone /\ \A i \in 1..Len(raw_packet) :
                       Recognized(raw_packet[i]) => WellFormed(raw_packet[i]))
        => /\ decode_pc = "returned"
           /\ Len(decoded) = CountIn(raw_packet, Recognized)

\* C19: component j of the event decoded from a well-formed vector-valued
\* message is the Float argument at position j, for each j of the address's
\* arity.
C19_VectorComponentsByPosition ==
    AllDecoded =>
        \A i \in 1..Len(raw_packet) :
            (raw_packet[i].addr \in VectorAddresses /\ WellFormed(raw_packet[i])) =>
                /\ Len(decoded[i].v) = Arity(raw_packet[i].addr)
                /\ \A j \in 1..Arity(raw_packet[i].addr) :
                       decoded[i].v[j] = raw_packet[i].args[j].f

\* C20: the event decoded from a blink, jaw_clench or touching_forehead
\* message is the variant of that address, with flag true iff Int argument 0
\* is nonzero.
C20_FlagIsNonzero ==
    AllDecoded =>
        \A i \in 1..Len(raw_packet) :
            raw_packet[i].addr \in FlagAddresses =>
                /\ decoded[i].tag = FlagTag(raw_packet[i].addr)
                /\ decoded[i].flag <=> raw_packet[i].args[1].i # 0

\* jaw_clench with -3 decoded to JawClench{true}, with 0 to JawClench{false}
C20_Witness ==
    /\ decode_pc = "returned"
    /\ raw_packet = <<Message("/muse/elements/jaw_clench", TRUE, <<Type_Int(-3)>>),
                      Message("/muse/elements/jaw_clench", TRUE, <<Type_Int(0)>>)>>
    /\ Len(decoded) = 2
    /\ decoded[1].tag = "JawClench" /\ decoded[1].flag
    /\ decoded[2].tag = "JawClench" /\ ~decoded[2].flag

(***************************************************************************)
(* The persistence streams                                                 *)
(***************************************************************************)
\* the rows of the file of stream s below its first row
DataRows(s) == IF Len(log_file[s]) = 0 THEN <<>> ELSE Tail(log_file[s])

\* the CSV row of a band-power or eeg message: its time, then its values
RowOf(m) == <<m.message_time>> \o m.v

RowsOf(q) == [i \in 1..Len(q) |-> RowOf(q[i])]

IsPrefix(a, b) == Len(a) <= Len(b) /\ a = SubSeq(b, 1, Len(a))

\* a is b with some of its elements left out
RECURSIVE IsSubsequence(_, _)
IsSubsequence(a, b) ==
    IF a = <<>> THEN TRUE
    ELSE IF b = <<>> THEN FALSE
    ELSE IF Head(a) = Head(b) THEN IsSubsequence(Tail(a), Tail(b))
    ELSE IsSubsequence(a, Tail(b))

\* the messages received so far that belong to stream s, in arrival order
ReceivedOn(s) == SelectSeq(arrived, LAMBDA m : StreamOf(m.tag) = s)

\* C21: on each channel-backed stream the messages were sent in the order
\* they were received, and the data rows its consumer thread has written are
\* a prefix of the rows of the messages sent: nothing is written twice, out
\* of order or skipped, and while the consumer lives the rows written followed
\* by the messages still queued are exactly the messages sent.
C21_RowsArePrefixOfSent ==
    \A s \in AsyncStreams :
        /\ IsPrefix(DataRows(s), RowsOf(sent[s]))
        /\ consumer[s] # "panicked" =>
               DataRows(s) \o RowsOf(channel[s]) = RowsOf(sent[s])
        /\ IsSubsequence(sent[s], ReceivedOn(s))

\* two eeg messages of different updates are both on file, a third row of the
\* run went to another stream
C21_Witness ==
    /\ Len(log_file["eeg"]) = 3
    /\ log_file["eeg"][2][1] < log_file["eeg"][3][1]
    /\ channel["eeg"] = <<>>

\* the first cell of every row of the file of s below the first is a time
TimedBelowFirst(s) ==
    \A i \in 2..Len(log_file[s]) : log_file[s][i][1] \in 0..clock

\* C22: every file that has rows has its header row as the first row and
\* nowhere else; this holds for the files of the four consumer threads, also
\* when messages were queued before the thread started, and for the three
\* files MuseModel::new opens itself.
C22_HeaderFirstAndOnce ==
    /\ \A s \in AsyncStreams :
        /\ IF consumer[s] = "spawned" THEN Len(log_file[s]) = 0
           ELSE IF consumer[s] = "panicked"
           THEN /\ Len(log_file[s]) <= 1 + Len(sent[s])
                /\ Len(log_file[s]) > 0 => log_file[s][1] = Header(s)
           ELSE /\ Len(log_file[s]) = 1 + Len(sent[s]) - Len(channel[s])
                /\ log_file[s][1] = Header(s)
        /\ TimedBelowFirst(s)
    /\ \A s \in SyncStreams :
        /\ Len(log_file[s]) >= 1
        /\ log_file[s][1] = Header(s)
        /\ TimedBelowFirst(s)

\* the eeg thread, the only one started so far, started when messages were
\* already queued, and has written its header and both of them
C22_Witness ==
    /\ started_late
    /\ consumer["eeg"] = "running"
    /\ \A s \in AsyncStreams \ {"eeg"} : consumer[s] = "spawned"
    /\ Len(log_file["eeg"]) = 3
    /\ log_file["eeg"][1] = Header("eeg")

\* C23: once the shutdown of the ESC branch (log_other, flush_all,
\* window.close()) has been carried out, the four Senders are dropped, every
\* channel is empty, every consumer thread has ended, and every message sent
\* is a flushed row of its file.
C23_ShutdownClosesEveryStream ==
    window = "closing" =>
        /\ sender = "dropped"
        /\ \A s \in AsyncStreams :
            /\ consumer[s] = "finished"
            /\ channel[s] = <<>>
            /\ Len(log_file[s]) = 1 + Len(sent[s])
            /\ flushed[s] = Len(log_file[s])

\* the consumer thread of s has ended and left nothing behind: the Senders
\* are dropped, the channel is empty, every message sent is a row of the
\* file, and the file is flushed
Drained(s) ==
    /\ sender = "dropped"
    /\ channel[s] = <<>>
    /\ Len(log_file[s]) = 1 + Len(sent[s])
    /\ flushed[s] = Len(log_file[s])

C25_ProducerOnlyEnqueues ==
    /\ producer_writes = 0
    /\ \A i \in 1..Len(handled) : StreamOf(handled[i].tag) \in AsyncStreams

\* the messages of h that belong to stream s, in order
OnStream(h, s) == SelectSeq(h, LAMBDA m : StreamOf(m.tag) = s)

\* C26: an update that hands handle_muse_message a message of a
\* channel-backed stream whose consumer thread has ended panics, and queues
\* nothing on that channel; an update that returns has queued every such
\* message it handled.
C26_SendToEndedConsumerPanics ==
    [][arrived' # arrived =>
          \A s \in AsyncStreams :
              /\ (consumer[s] \in {"finished", "panicked"} /\ OnStream(handled', s) # <<>>)
                     => (app_pc' = "panicked" /\ sent'[s] = sent[s])
              /\ app_pc' = "count_down" => sent'[s] = sent[s] \o OnStream(handled', s)]_vars

\* the eeg thread has panicked and the update that then handled an Eeg
\* message has panicked as well
C26_Witness ==
    /\ consumer["eeg"] = "panicked"
    /\ app_pc = "panicked"
    /\ handled # <<>>
    /\ handled[Len(handled)].tag = "Eeg"
    /\ sent["eeg"] = <<>>

\* C27: the files of eeg, alpha, beta and gamma are written by their own
\* consumer thread and by no other thread; the files of delta, theta and
\* other are written by the producer only.
C27_OneWriterPerStream ==
    /\ \A s \in AsyncStreams : writers[s] \subseteq {s}
    /\ \A s \in SyncStreams : writers[s] = {"producer"}

\* the eeg and alpha threads have each written a data row, and the producer
\* has handled messages of both and written the ESC row to other.csv
C27_Witness ==
    /\ writers["eeg"] = {"eeg"}
    /\ writers["alpha"] = {"alpha"}
    /\ Len(log_file["eeg"]) = 2
    /\ Len(log_file["alpha"]) = 2
    /\ Len(log_file["other"]) = 2

(***************************************************************************)
(* The values offered to the engines                                       *)
(***************************************************************************)
\* exp(alpha[AF8] - alpha[AF7]) / ((exp(theta[AF7]) + exp(theta[AF8])) / 2),
\* the electrodes counted TP9, AF7, AF8, TP10
RefValence(alpha, theta) ==
    F32(FDiv(powf(FSub(alpha[3], alpha[2])),
             FDiv(FAdd(powf(theta[2]), powf(theta[3])), FromInt(2))))

\* frontal_theta / (frontal_alpha + 1e-6), each the mean of exp over AF7, AF8
RefArousal(alpha, theta) ==
    F32(FDiv(FDiv(FAdd(powf(theta[2]), powf(theta[3])), FromInt(2)),
             FAdd(FDiv(FAdd(powf(alpha[2]), powf(alpha[3])), FromInt(2)), EPSILON)))

\* the engine now is the engine then after set(v), v being its newest
\* history entry and its current value when set admitted it
OfferedTo(then, now, v) ==
    /\ now = NormalizedValue_set(then, v).nv
    /\ NormalizedValue_set(then, v).ret =>
           /\ now.history # <<>>
           /\ now.history[Len(now.history)] = v
           /\ now.current = Some(v)

\* C28: when receive_packets updates the metrics, the value it offers to the
\* valence engine is RefValence of the alpha and theta the model holds, and
\* the value it offers to the arousal engine is RefArousal of them; the
\* engine gets the value as it is and, when it admits it, keeps it as it is.
C28_OfferedValueIsTheFormula ==
    (app_pc = "count_down" /\ HasBand(handled)) =>
        /\ OfferedTo(before.valence, muse_model.valence,
                     RefValence(muse_model.alpha, muse_model.theta))
        /\ OfferedTo(before.arousal, muse_model.arousal,
                     RefArousal(muse_model.alpha, muse_model.theta))

\* a second valence, unlike the first and unlike the arousal, was admitted
C28_Witness ==
    /\ app_pc = "count_down"
    /\ HasBand(handled)
    /\ Len(muse_model.valence.history) = 2
    /\ muse_model.valence.history[2] # muse_model.valence.history[1]
    /\ Len(muse_model.arousal.history) = 2
    /\ muse_model.valence.history[2] # muse_model.arousal.history[2]
    /\ muse_model.alpha[2] # muse_model.alpha[3]

(***************************************************************************)
(* mean and std_deviation on the vectors of the unit tests                 *)
(***************************************************************************)
\* the vector 1, 3, 5, ... of n values
Odds(n) == [i \in 1..n |-> FromInt(2 * i - 1)]

\* C29: mean and std_deviation, applied to the values admitted so far in a
\* run over 1, 3, 5, 7, give what the arithmetic mean and the population
\* standard deviation give: mean [1,3] = 2, mean [1,3,5] = 3, deviation
\* [1] = 0, deviation [1,3] = 1, deviation [1,3,5,7] = sqrt(5); neither is
\* defined on the empty vector; and the engine holds these very values.
C29_MeanAndDeviationOfTestVectors ==
    mode = "odd" =>
        /\ admitted = Odds(Len(admitted))
        /\ mean(admitted) = (IF admitted = <<>> THEN None ELSE Some(FromInt(Len(admitted))))
        /\ admitted = <<>> => std_deviation(admitted, mean(admitted)) = None
        /\ Len(admitted) = 1 => std_deviation(admitted, mean(admitted)) = Some(Zero)
        /\ Len(admitted) = 2 => std_deviation(admitted, mean(admitted)) = Some(FromInt(1))
        /\ Len(admitted) = 4 =>
               std_deviation(admitted, mean(admitted)) = Some(Surd(1, FromInt(5)))
        /\ nv.mean = mean(admitted)
        /\ nv.deviation = std_deviation(admitted, mean(admitted))

\* the four values of the tests are in, and the deviation is the root of 5
C29_Witness ==
    /\ mode = "odd"
    /\ admitted = Odds(4)
    /\ nv.deviation = Some(Surd(1, FromInt(5)))
    /\ nv.mean = Some(FromInt(4))

(***************************************************************************)
(* The mandalas                                                            *)
(***************************************************************************)
\* the update, which found frame_count past TITLE, got Some of a finite value
Usable(x) == is_some(x) /\ is_finite(unwrap(x))

\* the target a mandala has after an update that found it at target `was`,
\* found frame_count at fc and got x from receive_packets
TargetAfter(was, fc, x) == IF fc = "past_title" /\ Usable(x) THEN unwrap(x) ELSE was

\* C30: the targets of the two mandalas are always finite; an update moves a
\* mandala only to a value receive_packets returned as Some and finite (and
\* only once frame_count is past TITLE), and leaves it where it was when the
\* value is None, NaN or infinite.
C30_OnlyFiniteValuesReachTheMandalas ==
    /\ is_finite(mandala.valence)
    /\ is_finite(mandala.arousal)
    /\ app_pc = "count_down" =>
           /\ mandala.valence =
                  TargetAfter(view_before.mandala.valence, view_before.frame_count, result[1])
           /\ mandala.arousal =
                  TargetAfter(view_before.mandala.arousal, view_before.frame_count, result[2])

\* past the title, an update got Some(NaN) for both metrics from
\* receive_packets and left both mandalas where they were
C30_Witness ==
    /\ app_pc = "count_down"
    /\ view_before.frame_count = "past_title"
    /\ is_some(result[1]) /\ ~is_finite(unwrap(result[1]))
    /\ is_some(result[2]) /\ ~is_finite(unwrap(result[2]))
    /\ HasBand(handled)
    /\ mandala = view_before.mandala

(***************************************************************************)
(* bound_normalized_value                                                  *)
(***************************************************************************)
\* C31 as stated: whatever the input, bound_normalized_value returns 3.0 or
\* -3.0 and never the input itself.
C31_AlwaysALiteralNeverTheInput ==
    op = "bound_normalized_value" =>
        /\ unwrap(ret) \in {FromInt(3), FromInt(-3)}
        /\ unwrap(ret) # unwrap(arg)

\* C31, amended: whatever the input (NaN and the infinities included),
\* bound_normalized_value returns -3.0; it never returns 3.0, and what it
\* returns is the input only when the input is -3.0.
C31_AlwaysMinusThree ==
    op = "bound_normalized_value" =>
        /\ unwrap(ret) = FromInt(-3)
        /\ unwrap(ret) = unwrap(arg) <=> unwrap(arg) = FromInt(-3)

\* the call on 1.5, a value inside [-3, 3], has returned -3.0
C31_Witness ==
    /\ op = "bound_normalized_value"
    /\ arg = Some(Rat(3, 2))
    /\ ret = Some(FromInt(-3))

(***************************************************************************)
(* The battery value                                                       *)
(***************************************************************************)
\* the raw message is /muse/batt with two Int arguments
IsBattPair(raw) ==
    /\ raw.addr = "/muse/batt"
    /\ raw.has_args
    /\ Len(raw.args) >= 2
    /\ raw.args[1].t = "Int"
    /\ raw.args[2].t = "Int"

\* C32: a /muse/batt message with two Int arguments decodes to a defined
\* battery value whatever the two integers are, and that value is the ratio
\* of the second argument to the first as a percentage: when the second
\* does not exceed the first (both non-negative, the first positive), it is
\* the integer 100 * second / first, between 0 and 100.
C32_BatteryIsAPercentage ==
    (DecodeDone /\ Len(raw_packet) = 1 /\ IsBattPair(raw_packet[1])) =>
        /\ decode_pc = "returned"
        /\ Len(decoded) = 1
        /\ decoded[1].tag = "Batt"
        /\ LET den == raw_packet[1].args[1].i
               num == raw_packet[1].args[2].i
           IN  (0 <= num /\ num <= den /\ den > 0) =>
                   /\ decoded[1].batt \in 0..100
                   /\ decoded[1].batt = (100 * num) \div den

(***************************************************************************)
(* The model right after MuseModel::new                                    *)
(***************************************************************************)
\* a statistics engine nothing was ever set on
IsEmptyEngine(e) ==
    /\ e.current = None /\ e.min = None /\ e.max = None
    /\ e.mean = None /\ e.deviation = None
    /\ e.history = <<>> /\ e.moving_average_history = <<>>

AllZero(x) == \A i \in 1..Len(x) : x[i] = Zero

\* C33: as long as no message has arrived, the model is as MuseModel::new
\* made it: the band-power, accelerometer, gyro and horseshoe vectors are
\* all-zero, the battery is 0, both engines are empty, the three counters
\* are 0, and is_blink, is_jaw_clench and is_touching_forehead are false.
C33_NewModelIsZeroed ==
    arrived = <<>> =>
        /\ \A f \in {"alpha", "beta", "gamma", "delta", "theta", "horseshoe"} :
               Len(muse_model[f]) = 4 /\ AllZero(muse_model[f])
        /\ \A f \in {"accelerometer", "gyro"} :
               Len(muse_model[f]) = 3 /\ AllZero(muse_model[f])
        /\ muse_model.batt = 0
        /\ IsEmptyEngine(muse_model.valence)
        /\ IsEmptyEngine(muse_model.arousal)
        /\ muse_model.blink_countdown = 0
        /\ muse_model.jaw_clench_countdown = 0
        /\ muse_model.touching_forehead_countdown = 0
        /\ ~is_blink(muse_model)
        /\ ~is_jaw_clench(muse_model)
        /\ ~is_touching_forehead(muse_model)

\* the first update found nothing to receive and is about to call count_down
C33_Witness ==
    /\ arrived = <<>>
    /\ clock = 0
    /\ app_pc = "count_down"
    /\ before = MuseModel_new(0)
    /\ muse_model = MuseModel_new(0)

(***************************************************************************)
(* handle_muse_message, message by message                                 *)
(***************************************************************************)
\* the message kind that has counter c as its own
KindOf(c) ==
    IF c = "blink" THEN "Blink"
    ELSE IF c = "jaw_clench" THEN "JawClench"
    ELSE "TouchingForehead"

\* the producer after handle_muse_message on m, were m to arrive now
Handling(m) == handle_muse_message(Producer, MuseMessage(clock + 1, m))

\* C34: in every reachable state and for every message, handle_muse_message
\* leaves every counter that is not the message kind's own as it is: a
\* Blink, JawClench or TouchingForehead message changes at most its own
\* counter, and a message of any other kind changes none.
C34_CountersAreIndependent ==
    \A m \in WireMessages : \A c \in Counters :
        KindOf(c) # m.tag =>
            CounterOf(Handling(m).self, c) = CounterOf(muse_model, c)

\* a Blink was handled while the jaw-clench counter was running: the blink
\* counter is armed and the jaw-clench counter is where it was
C34_Witness ==
    /\ app_pc = "count_down"
    /\ Len(handled) = 1
    /\ handled[1].tag = "Blink"
    /\ handled[1].flag
    /\ muse_model.blink_countdown = BLINK_COUNTDOWN
    /\ before.jaw_clench_countdown = CLENCH_COUNTDOWN - 1
    /\ muse_model.jaw_clench_countdown = CLENCH_COUNTDOWN - 1

\* C35: every message queued on the eeg, alpha, beta or gamma channel has the
\* variant of that stream, and the consumer thread of the stream, taking it
\* off the channel, writes its row and does not panic on an unexpected type.
C35_QueuedVariantIsExpected ==
    \A s \in AsyncStreams : \A i \in 1..Len(channel[s]) :
        /\ StreamOf(channel[s][i].tag) = s
        /\ consumer_receive([state |-> "running", file |-> <<Header(s)>>, flushed |-> 0],
                            s, channel[s][i]).state = "running"

\* an Eeg and a Beta message have been handled and each is queued on its own
\* channel
C35_Witness ==
    /\ Len(channel["eeg"]) = 1
    /\ Len(channel["beta"]) = 1
    /\ channel["eeg"][1].tag = "Eeg"
    /\ channel["beta"][1].tag = "Beta"

\* the five band vectors and the two engines of a model
BandState(self) ==
    <<self.alpha, self.beta, self.gamma, self.delta, self.theta,
      self.arousal, self.valence>>

\* C36: in every reachable state and for every message, handle_muse_message
\* returns true exactly for Alpha, Beta, Gamma, Delta and Theta; a message of
\* any other kind leaves the five band vectors and both engines as they are;
\* an Eeg message leaves every field of the model and every file as it is and
\* only appends itself to the eeg channel.
C36_ReturnsTrueForBandsOnly ==
    \A m \in WireMessages :
        LET r == Handling(m)
        IN  /\ r.ret = (m.tag \in BandTags)
            /\ m.tag \notin BandTags => BandState(r.self) = BandState(muse_model)
            /\ m.tag = "Eeg" =>
                   /\ r.self = muse_model
                   /\ r.files = log_file
                   /\ r.channel = [channel EXCEPT !["eeg"] =
                                       Append(@, MuseMessage(clock + 1, m))]

\* an Eeg message and then an Alpha message were handled in one update: the
\* Eeg is queued and the alpha vector is the payload
C36_Witness ==
    /\ app_pc = "count_down"
    /\ Len(handled) = 2
    /\ handled[1].tag = "Eeg"
    /\ handled[2].tag = "Alpha"
    /\ Len(channel["eeg"]) = 1
    /\ muse_model.alpha = handled[2].v
    /\ before.alpha # handled[2].v

(***************************************************************************)
(* Invariants of the statistics engine                                     *)
(***************************************************************************)
\* the defined inputs of normalize: Some(v) of a finite v
DefinedInputs == {x \in NormalizeInputs \cup {nv.current} : is_some(x) /\ is_finite(unwrap(x))}

\* C37: consecutive admitted values differ; the deviation is zero if and only
\* if exactly one value has ever been admitted; normalize of a defined input
\* is non-finite in the state reached by the first admitted value and finite
\* in every state with two or more admitted values.
C37_ZeroDeviationIffOneAdmitted ==
    /\ \A i \in 1..(Len(admitted) - 1) : admitted[i] # admitted[i + 1]
    /\ nv.deviation = Some(Zero) <=> Len(admitted) = 1
    /\ \A x \in DefinedInputs :
           /\ Len(admitted) = 1 => ~is_finite(unwrap(normalize(nv, x)))
           /\ Len(admitted) >= 2 => is_finite(unwrap(normalize(nv, x)))
    /\ (op = "normalize" /\ arg \in DefinedInputs /\ Len(admitted) >= 1) =>
           (is_finite(unwrap(ret)) <=> Len(admitted) >= 2)

\* normalize was called on 2 with the values 1, 0, 1 admitted, and returned a
\* finite value
C37_Witness ==
    /\ op = "normalize"
    /\ admitted = <<FromInt(1), FromInt(0), FromInt(1)>>
    /\ arg = Some(FromInt(2))
    /\ is_some(ret)
    /\ is_finite(unwrap(ret))
    /\ nv.deviation # Some(Zero)

\* a <= b on values that are not NaN
FLe(a, b) == ~FLt(b, a)

\* C38: current, min and max are all None, with nothing admitted, or all
\* Some with min <= current <= max; _percent() is None if and only if nothing
\* was admitted; otherwise it lies in [0, 100] and is 0 whenever max = min.
C38_PercentWithinBounds ==
    /\ (nv.current = None /\ nv.min = None /\ nv.max = None /\ admitted = <<>>)
       \/ (/\ is_some(nv.current) /\ is_some(nv.min) /\ is_some(nv.max)
           /\ admitted # <<>>
           /\ FLe(unwrap(nv.min), unwrap(nv.current))
           /\ FLe(unwrap(nv.current), unwrap(nv.max)))
    /\ _percent(nv) = None <=> admitted = <<>>
    /\ admitted # <<>> =>
           /\ FLe(Zero, unwrap(_percent(nv)))
           /\ FLe(unwrap(_percent(nv)), FromInt(100))
           /\ nv.max = nv.min => _percent(nv) = Some(Zero)
    /\ op = "_percent" => ret = _percent(nv)

\* C39: after any sequence of set calls moving_average_history is never
\* longer than history and is its suffix, the same values in the same order,
\* and the last element of a non-empty history is current.
C39_WindowIsSuffixOfHistory ==
    LET h == nv.history
        w == nv.moving_average_history
    IN  /\ Len(w) <= Len(h)
        /\ w = SubSeq(h, Len(h) - Len(w) + 1, Len(h))
        /\ h # <<>> => nv.current = Some(h[Len(h)])

\* a value was admitted beyond HISTORY_LENGTH: the history and the window
\* have both evicted, and the window holds the newest values of the history
C39_Witness ==
    /\ op = "set"
    /\ ret = TRUE
    /\ Len(admitted) > HISTORY_LENGTH
    /\ Len(nv.history) = HISTORY_LENGTH
    /\ Len(nv.moving_average_history) = WINDOW_LENGTH - 1
    /\ nv.moving_average_history[WINDOW_LENGTH - 1] = arg
    /\ nv.moving_average_history[1] # nv.history[1]

\* the label of the row handle_muse_message writes to other.csv for m
LabelOf(m) ==
    LET rows == Handling(m).files["other"]
    IN  rows[Len(rows)][2][1]

\* C40: the rows written to other.csv for messages of two different kinds
\* (accelerometer, gyro, horseshoe, battery, touching-forehead, blink,
\* jaw-clench) carry different labels.
C40_LabelIdentifiesKind ==
    \A m1, m2 \in {m \in WireMessages : StreamOf(m.tag) = "other"} :
        m1.tag # m2.tag => LabelOf(m1) # LabelOf(m2)
====
